---- MODULE Spec2Model ----
(***************************************************************************)
(* A model of modelez: the container (createContainer.ts) with the        *)
(* instance factory (createInstance.ts), the reactive primitives           *)
(* (createStaticState, createComputedState, createEffect, callbackGroup)   *)
(* and the resource engine (createResource.ts, async.ts).                  *)
(*                                                                         *)
(* JavaScript is single-threaded: a call runs to completion, but a model   *)
(* builder, an init hook or a dispose hook is user code that may call the  *)
(* container again before the call that invoked it has returned.  The      *)
(* container part therefore keeps the call stack as state: a frame per     *)
(* call in progress with its position, and a "user" frame while user code  *)
(* runs.  What user code does is the model's input.                        *)
(***************************************************************************)
EXTENDS Integers, Sequences, FiniteSets, TLC

\* ------------------------------------------------------------------ bounds
MaxInst == 2        \* model instances ever created
MaxReentrant == 1   \* calls made by user code from inside a builder or hook
MaxHooks == 1       \* dispose hooks a builder registers
MaxInitHooks == 2   \* init hooks a builder registers
MaxNestedInst == 3  \* instances ever created when a nested builder gets from its own container
MaxPrims == 1       \* reactive primitives a builder creates
MaxBackups == 2     \* backup() calls
MaxRuns == 3        \* load runs a resource starts
MaxSubs == 1        \* subscriptions user code makes on the states
MaxNested == 1      \* calls a listener makes while a write is dispatching
MaxSeeds == 1       \* storage entries that exist before an instance is built
MaxSessions == 2    \* times an instance with a persisted state is built
MaxEvals == 4       \* runs of the watcher's effect
MaxMembers == 2     \* futures handed to waitAll and waitAny
MaxThrows == 2      \* exceptions user code throws
MaxPauses == 2      \* pause() calls made on one deferred controller
MaxDCalls == 4      \* calls made on one deferred controller and its unpause functions

\* ------------------------------------------------------------- containers
VARIABLES
  registry,    \* [container -> id of the Map object its `registry` names]
  maps,        \* heap of Map objects: id -> sequence of [key, entry] in insertion order
  instances,   \* heap of `instances` arrays of model entries: id -> Seq([key, instance])
  model,       \* per instance: phase, type, key, notifiers, child container
  stack,       \* the call stack: frames of calls in progress, innermost last
  calls,       \* calls made by user code so far
  backups,     \* restore functions handed out by backup(): Seq([prev, new])
  hist         \* history of what the calls returned and ran (observation only)

cvars == <<registry, maps, instances, model, stack, calls, backups, hist>>

\* --------------------------------------------------------------- resource
VARIABLES
  current,     \* ResourceData: [status, value]
  version,     \* value of the version state
  disposed,    \* the resource's `disposed`
  defers,      \* heap of the deferred controllers createDefer made
  defer,       \* the controller `defer` names now
  promise,     \* the future `promise` names now: a controller's, or 0 for NEVER_RESOLVED_PROMISE
  runs,        \* load runs started: controller captured, what the loader returned, how it settled
  notified,    \* what the subscribers were called with, in order (observation only)
  promiseResults, \* the status cache's entry for the resource: [status, value], or NoResult
  hook,        \* the then-callbacks getResult(resource) attached: [d, state]
  initial      \* the `initial` of createResource: [value], or NoInitial once undefined

rvars == <<current, version, disposed, defers, defer, promise, runs, notified,
           promiseResults, hook, initial>>

\* ----------------------------------------------------- states and effects
VARIABLES
  currentValue,     \* [state -> its currentValue]
  callbacks,        \* [state -> the callbacks array of its changeNotifier]
  cleanupNotifier,  \* callbacks of the effect's cleanupNotifier: the states to unsubscribe from
  subs,             \* remove functions handed to user code: [state, callback, active]
  sstack,           \* writes dispatching and listeners running, innermost last
  scalls            \* calls made by listeners during the write in progress

svars == <<currentValue, callbacks, cleanupNotifier, subs, sstack, scalls>>

\* ------------------------------------------------------------ persistence
VARIABLES
  storages,    \* container.storages: [storage name -> Map from physical key to value]
  pstate,      \* the persisted state of the instance being built or used
  persist      \* the storage accessor the persisted resource writes through, if any

pvars == <<storages, pstate, persist>>

\* ---------------------------------------------------------------- watcher
VARIABLES
  dep,         \* value of the state the watcher depends on
  watcher,     \* the watcher's `current` ([value], or NoCurrent) and its equality
  changes,     \* the values onChange was called with, in order (observation only)
  evaluated    \* the values evaluate gave, run by run (observation only)

wvars == <<dep, watcher, changes, evaluated>>

\* ------------------------------------------------------- waitAll, waitAny
VARIABLES
  members,     \* the futures handed to the call in progress: classification and outcome
  acall,       \* the waitAll or waitAny call made: form, what it returned, threw, called
  combined     \* the future Promise.all or Promise.race made for the call

avars == <<members, acall, combined>>

\* ---------------------------------------------------- deferred controller
VARIABLES
  ctl,         \* the closure of one createDefer(): status, realStatus, realValue, isPausing
  future,      \* the future of that createDefer(): its state, its value, executor calls made
  unpauses,    \* the functions pause() returned, in order: "noop" or "unpause"
  dcalls       \* the calls made so far, in order (observation only)

dvars == <<ctl, future, unpauses, dcalls>>

\* ----------------------------------------------------------- named facade
VARIABLES
  nreg,        \* the registry entries under names: [type, value] per property name
  nout         \* the latest call through the facade or with a bad argument, and how it ended

nvars == <<nreg, nout>>

\* --------------------------------------------------------- listener group
VARIABLES
  group,       \* the callbacks array of one callbackGroup(): [callback, reg], reg the call that pushed it
  removers     \* the remove functions handed out, by registration call: [newCallbacks, active]

gvars == <<group, removers>>

\* ---- src/lib/mapEx.ts: one MapEx
VARIABLES
  nonObjectMap,   \* the native Map of the non-object keys: [key, entry] in insertion order
  objectEntries,  \* the array of {key, value} for the object keys
  mcall           \* the latest call made on the MapEx: [op, key, value] and what it returned

mvars == <<nonObjectMap, objectEntries, mcall>>
zvars == <<dvars, nvars, gvars, mvars>>
xvars == <<wvars, avars, zvars>>

Types == {"T", "U"}              \* model types (createType); identity is the name
KeyObjs == {1, 2, 3}             \* key objects passed to get/delete
\* the keys each type is asked for: type U is keyless (key 1 stands for undefined)
KeysOf(t) == IF t = "T" THEN KeyObjs ELSE {1}
\* keys 1 and 2 are two objects of the same shape, key 3 has another shape
Shape(k) == IF k = 3 THEN "b" ELSE "a"
Shapes == {"a", "b"}
Insts == 1..MaxNestedInst
Containers == 0..MaxNestedInst         \* 0: the container under test; i: child container of instance i
NoInst == 0
MapIds == 0..(MaxNestedInst + MaxBackups)  \* Map objects: a container's first registry, or a backup()'s copy
RegKeys == {"T", "dep"}          \* keys given to set(): a model type and a named dependency
Values == {1, 2}                 \* the values registered

\* equal(x.key, key) of @wry/equality: structural comparison
equal(a, b) == Shape(a) = Shape(b)

\* ---------------------------------------------------------------- helpers
Top == stack[Len(stack)]
Pop(s) == SubSeq(s, 1, Len(s) - 1)
RemoveAt(s, n) == SubSeq(s, 1, n - 1) \o SubSeq(s, n + 1, Len(s))

\* Array.prototype.findIndex over {key, instance} entries; 0 stands for -1
findIndexKey(arr, key) ==
  IF \E n \in 1..Len(arr) : equal(arr[n].key, key)
  THEN CHOOSE n \in 1..Len(arr) :
         /\ equal(arr[n].key, key)
         /\ \A m \in 1..(n - 1) : ~equal(arr[m].key, key)
  ELSE 0

\* Map.prototype.get on a native Map (keys by identity); 0 stands for undefined
MapIndex(m, k) ==
  IF \E n \in 1..Len(m) : m[n].key = k
  THEN CHOOSE n \in 1..Len(m) : m[n].key = k
  ELSE 0
MapHas(m, k) == MapIndex(m, k) # 0
MapGet(m, k) == m[MapIndex(m, k)].entry
MapSet(m, k, e) ==
  IF MapHas(m, k) THEN [m EXCEPT ![MapIndex(m, k)].entry = e]
  ELSE Append(m, [key |-> k, entry |-> e])
MapDelete(m, k) == IF MapHas(m, k) THEN RemoveAt(m, MapIndex(m, k)) ELSE m

ModelEntry(e) == [type |-> "model", e |-> e, value |-> 0]
ValueEntry(v) == [type |-> "value", e |-> 0, value |-> v]

Reg(c) == maps[registry[c]]      \* the Map that container c's `registry` names now

\* getAll(type): the entries listed for a type
getAll(c, t) ==
  IF MapHas(Reg(c), t) /\ MapGet(Reg(c), t).type = "model"
  THEN instances[MapGet(Reg(c), t).e]
  ELSE <<>>

Frame(op, pc, c, t, key, i, todo) ==
  [op |-> op, pc |-> pc, c |-> c, t |-> t, key |-> key, i |-> i,
   todo |-> todo, err |-> 0, pos |-> 1, again |-> FALSE, all |-> FALSE,
   tried |-> <<>>, caught |-> <<>>, copied |-> <<>>, born |-> 0, listed |-> {}]

NoModel ==
  [phase |-> "none", type |-> "T", key |-> 1, container |-> 0, entry |-> 0,
   initNotifier |-> <<>>, disposeNotifier |-> <<>>, childContainer |-> FALSE,
   nInit |-> 0, nDispose |-> 0, nPrim |-> 0]

nInst == Cardinality({i \in Insts : model[i].phase # "none"})
\* the instances container c lists, under type t and under any type
listedOf(c, t) == {getAll(c, t)[n].instance : n \in 1..Len(getAll(c, t))}
listedIn(c) == UNION {listedOf(c, t) : t \in Types}

InitC ==
  /\ registry = [c \in Containers |-> c]
  /\ maps = [m \in MapIds |-> <<>>]
  /\ instances = <<>>
  /\ model = [i \in Insts |-> NoModel]
  /\ stack = <<>>
  /\ calls = 0
  /\ backups = <<>>
  /\ hist = [got |-> [x \in Types \X Shapes |-> NoInst],
             returned |-> {},
             ran |-> [i \in Insts |-> <<>>],
             initRan |-> [i \in Insts |-> <<>>],
             at |-> <<>>,
             last |-> 0,
             released |-> [i \in Insts |-> 0],
             disposeCalled |-> {},
             threw |-> 0,
             thrown |-> 0,
             used |-> [x \in Insts \X Types \X Shapes |-> NoInst]]


\* variables of the other parts of the model, which no container call touches
ovarsC == <<rvars, svars, pvars, xvars>>

\* ------------------------------------------------- who may call, and when
\* a call is made by the test (empty stack) or by user code that is running
CanCall ==
  IF stack = <<>> THEN TRUE
  ELSE /\ Top.op = "user" /\ calls < MaxReentrant
       /\ Top.pc = "builder" => model[Top.i].nDispose = MaxHooks
Count == calls' = IF stack = <<>> THEN calls ELSE calls + 1

\* the stack as a call finds it
Called == stack

\* what a get that returns instance i leaves in the history
\* stk is the stack of the caller: use(t, key) is called by the builder of
\* the instance that owns the child container c
HistGet(h, stk, c, t, key, i) ==
  IF c = 0
  THEN [h EXCEPT !.got[<<t, Shape(key)>>] = i,
                 !.returned = @ \cup {i}]
  ELSE IF stk # <<>> /\ stk[Len(stk)].op = "user" /\ stk[Len(stk)].i = c
  THEN [h EXCEPT !.used[<<c, t, Shape(key)>>] = i,
                 !.returned = @ \cup {i}]
  ELSE [h EXCEPT !.returned = @ \cup {i}]

\* a delete, deleteAll or dispose call ends the "nothing in between" window
HistReset(h) == [h EXCEPT !.got = [x \in Types \X Shapes |-> NoInst], !.last = 0]

\* catch (ex) { error = ex }: the latest exception caught replaces the one kept
error_first(kept, ex) == IF kept = 0 THEN ex ELSE kept
error(kept, ex) == ex

\* throw: unwind to the innermost try/catch, which is deleteAll's around
\* x.instance.dispose(); with none the exception leaves the outermost call
Catchers(stk) == {j \in 1..Len(stk) : stk[j].op = "deleteAll" /\ stk[j].pc = "dispose"}
Unwind(stk, ex) ==
  LET C == Catchers(stk)
  IN IF C = {} THEN <<>>
     ELSE LET j == CHOOSE x \in C : \A y \in C : y <= x
          IN [SubSeq(stk, 1, j) EXCEPT ![j].err = error(@, ex),
                                       ![j].caught = Append(@, ex)]

\* the history when ex is thrown: hist.thrown is the exception that reached the test
Escaped(h, stk, ex) == IF Catchers(stk) = {} THEN [h EXCEPT !.thrown = ex] ELSE h

\* instances that may exist when container c creates one: one more when the
\* builder of a nested instance gets from the container it lives in
room(c) == IF stack # <<>> /\ c # 0 /\ Top.c = c THEN MaxNestedInst ELSE MaxInst

\* ------------------------------------------------------------ container.get
\* get(type, key) of container c: look the entry up (creating it), return the
\* listed instance or start createInstance and run the builder.  mdl is the
\* model state the call starts from.
get(c, t, key, mdl) ==
  LET m == Reg(c)
      has == MapHas(m, t)
      entry == IF has THEN MapGet(m, t) ELSE ModelEntry(Len(instances) + 1)
      ins1 == IF has THEN instances ELSE Append(instances, <<>>)
      maps1 == IF has THEN maps ELSE [maps EXCEPT ![registry[c]] = MapSet(m, t, entry)]
  IN IF entry.type = "model"
     THEN LET n == findIndexKey(ins1[entry.e], key)
          IN IF n # 0
             THEN /\ hist' = HistGet(hist, Called, c, t, key, ins1[entry.e][n].instance)
                  /\ model' = mdl
                  /\ stack' = Called
                  /\ UNCHANGED <<maps, instances>>
             ELSE /\ nInst < room(c)
                  /\ model' = [mdl EXCEPT ![nInst + 1] =
                       [NoModel EXCEPT !.phase = "pre-init", !.type = t, !.key = key,
                                       !.container = c, !.entry = entry.e]]
                  /\ stack' = Called \o <<Frame("get", "builder", c, t, key, nInst + 1, <<>>),
                                         Frame("user", "builder", c, t, key, nInst + 1, <<>>)>>
                  /\ maps' = maps1
                  /\ instances' = ins1
                  /\ UNCHANGED hist
     ELSE \* a value registered under the type: returned as it is
          /\ model' = mdl
          /\ stack' = Called
          /\ UNCHANGED <<maps, instances, hist>>

CallGet(t, key) ==
  /\ CanCall
  /\ Count
  /\ get(0, t, key, model)
  /\ UNCHANGED <<registry, backups, ovarsC>>

\* the builder has returned: phase = 'init', instances.push, init() starts
GetRegister ==
  /\ stack # <<>> /\ Top.op = "get" /\ Top.pc = "builder"
  /\ model' = [model EXCEPT ![Top.i].phase = "init"]
  /\ instances' = [instances EXCEPT ![model[Top.i].entry] =
                     Append(@, [key |-> Top.key, instance |-> Top.i])]
  /\ stack' = [stack EXCEPT ![Len(stack)].pc = "init",
                            ![Len(stack)].todo = model[Top.i].initNotifier]
  /\ UNCHANGED <<registry, maps, calls, backups, hist, ovarsC>>

\* initNotifier.invoke: the next init hook of the frozen copy runs
GetInitHook ==
  /\ stack # <<>> /\ Top.op = "get" /\ Top.pc = "init" /\ Top.todo # <<>>
  /\ stack' = [stack EXCEPT ![Len(stack)].todo = Tail(@)]
                \o <<Frame("user", "init", Top.c, Top.t, Top.key, Top.i, <<>>)>>
  /\ hist' = [hist EXCEPT !.initRan[Top.i] = Append(@, Head(Top.todo).id)]
  /\ UNCHANGED <<registry, maps, instances, model, calls, backups, ovarsC>>

\* initNotifier.clear(); phase = 'ready'; get returns the new instance
GetReady ==
  /\ stack # <<>> /\ Top.op = "get" /\ Top.pc = "init" /\ Top.todo = <<>>
  /\ model' = [model EXCEPT ![Top.i].initNotifier = <<>>, ![Top.i].phase = "ready"]
  /\ stack' = Pop(stack)
  /\ hist' = HistGet(hist, Pop(stack), Top.c, Top.t, Top.key, Top.i)
  /\ UNCHANGED <<registry, maps, instances, calls, backups, ovarsC>>

\* ----------------------------------------------------- the builder's context
InBuilder == stack # <<>> /\ Top.op = "user" /\ Top.pc = "builder"

\* The builders of the model first create MaxPrims primitives, then register
\* MaxInitHooks init hooks and MaxHooks dispose hooks, and only then use, call the
\* container, return or throw.  A hook that does nothing behaves as no hook.
Registered(i) ==
  model[i].nPrim = MaxPrims /\ model[i].nInit = MaxInitHooks /\ model[i].nDispose = MaxHooks
\* user code that may go on to call, return or throw
Running ==
  /\ stack # <<>> /\ Top.op = "user"
  /\ Top.pc = "builder" => Registered(Top.i)

\* on('init', listener)
BuilderOnInit ==
  /\ InBuilder /\ model[Top.i].nInit < MaxInitHooks
  /\ model[Top.i].nPrim = MaxPrims
  /\ model' = [model EXCEPT
       ![Top.i].initNotifier = Append(@, [kind |-> "hook", id |-> model[Top.i].nInit + 1]),
       ![Top.i].nInit = @ + 1]
  /\ UNCHANGED <<registry, maps, instances, stack, calls, backups, hist, ovarsC>>

\* on('dispose', listener)
BuilderOnDispose ==
  /\ InBuilder /\ model[Top.i].nDispose < MaxHooks
  /\ model[Top.i].nInit = MaxInitHooks
  /\ model' = [model EXCEPT
       ![Top.i].disposeNotifier = Append(@, [kind |-> "hook", id |-> model[Top.i].nDispose + 1]),
       ![Top.i].nDispose = @ + 1]
  /\ UNCHANGED <<registry, maps, instances, stack, calls, backups, hist, ovarsC>>

\* state(...), resource(...), effect(...), watch(...): the primitive's dispose
\* joins the dispose notifier (state and resource only while phase is pre-init)
BuilderPrimitive ==
  /\ InBuilder /\ model[Top.i].phase = "pre-init" /\ model[Top.i].nPrim < MaxPrims
  /\ model' = [model EXCEPT
       ![Top.i].disposeNotifier = Append(@, [kind |-> "prim", id |-> model[Top.i].nPrim + 1]),
       ![Top.i].nPrim = @ + 1]
  /\ UNCHANGED <<registry, maps, instances, stack, calls, backups, hist, ovarsC>>

\* the builder of instance i is on the call stack: type.builder(context, key)
\* has not returned yet
BuilderRunning(i) ==
  \E j \in 1..Len(stack) : stack[j].op = "get" /\ stack[j].pc = "builder" /\ stack[j].i = i
\* the Error state(...) and resource(...) throw outside the pre-init phase
UsageError == MaxInst + 1
preInit_orInit(phase) == phase \in {"pre-init", "init"}
preInit(phase) == phase = "pre-init"

\* context.state(...) or context.resource(...) of instance i called by code
\* that is not the body of i's builder: an init or dispose hook of i, a
\* method the test calls on the instance get returned, or code the builder
\* called.  The context of a builder that threw is not used again.
ContextPrimitive(i) ==
  /\ model[i].phase # "none" /\ model[i].nPrim <= MaxPrims
  /\ IF stack = <<>> THEN i \in hist.returned
     ELSE /\ Running /\ ~(Top.pc = "builder" /\ Top.i = i)
          /\ Top.i = i \/ BuilderRunning(i)
  /\ IF preInit(model[i].phase)
     THEN /\ model' = [model EXCEPT
               ![i].disposeNotifier = Append(@, [kind |-> "prim", id |-> model[i].nPrim + 1]),
               ![i].nPrim = @ + 1]
          /\ UNCHANGED <<stack, hist>>
     ELSE /\ stack' = IF stack = <<>> THEN stack ELSE Unwind(Pop(stack), UsageError)
          /\ hist' = Escaped(hist, IF stack = <<>> THEN stack ELSE Pop(stack), UsageError)
          /\ UNCHANGED model
  /\ UNCHANGED <<registry, maps, instances, calls, backups, ovarsC>>

\* use(type, key): childContainer.value.get(type, key), the child container
\* being created on first use
BuilderUse(t, key) ==
  /\ InBuilder /\ Registered(Top.i)
  /\ get(Top.i, t, key, [model EXCEPT ![Top.i].childContainer = TRUE])
  /\ UNCHANGED <<registry, calls, backups, ovarsC>>

\* context.get(type, key) called by the builder of a nested instance: the
\* context spreads the methods of the container the instance lives in, the
\* child container of its parent
ContextGet(t, key) ==
  /\ InBuilder /\ Registered(Top.i) /\ Top.c # 0
  /\ CanCall
  /\ Count
  /\ get(Top.c, t, key, model)
  /\ UNCHANGED <<registry, backups, ovarsC>>

\* --------------------------------------------------------- instance.dispose
\* dispose() up to its first call out: the early return, phase = 'disposed'.
\* `again` marks a call on an instance whose dispose() was called before.
dispose(mdl, stk, i, again) ==
  IF mdl[i].phase = "disposed"
  THEN [model |-> mdl, stack |-> stk]
  ELSE [model |-> [mdl EXCEPT ![i].phase = "disposed"],
        stack |-> stk \o <<[Frame("dispose", "child", mdl[i].container, mdl[i].type,
                                  mdl[i].key, i, <<>>) EXCEPT !.again = again]>>]

CallDispose(i) ==
  /\ CanCall
  /\ Count
  /\ i \in hist.returned
  /\ LET d == dispose(model, Called, i, i \in hist.disposeCalled)
     IN /\ model' = d.model
        /\ stack' = d.stack
  /\ hist' = [HistReset(hist) EXCEPT !.disposeCalled = @ \cup {i}]
  /\ UNCHANGED <<registry, maps, instances, backups, ovarsC>>

\* childContainer.dispose(): deleteAll() of the child container, if one exists
DisposeChild ==
  /\ stack # <<>> /\ Top.op = "dispose" /\ Top.pc = "child"
  /\ stack' = IF model[Top.i].childContainer
              THEN [stack EXCEPT ![Len(stack)].pc = "onDispose"]
                     \o <<[Frame("deleteAll", "forEach", Top.i, Top.t, Top.key, Top.i, <<>>)
                            EXCEPT !.all = TRUE, !.born = nInst, !.listed = listedIn(Top.i)]>>
              ELSE [stack EXCEPT ![Len(stack)].pc = "onDispose"]
  /\ UNCHANGED <<registry, maps, instances, model, calls, backups, hist, ovarsC>>

\* onDispose(): the container's callback splices the entry found by key out
\* of the instances array the instance was created for; then
\* disposeNotifier.invoke takes its frozen copy
DisposeOnDispose ==
  /\ stack # <<>> /\ Top.op = "dispose" /\ Top.pc = "onDispose"
  /\ LET arr == instances[model[Top.i].entry]
         n == findIndexKey(arr, model[Top.i].key)
     IN instances' = IF n # 0
                     THEN [instances EXCEPT ![model[Top.i].entry] = RemoveAt(arr, n)]
                     ELSE instances
  /\ stack' = [stack EXCEPT ![Len(stack)].pc = "hooks",
                            ![Len(stack)].todo = model[Top.i].disposeNotifier]
  /\ UNCHANGED <<registry, maps, model, calls, backups, hist, ovarsC>>

\* disposeNotifier.invoke: the next callback of the frozen copy runs, a
\* dispose hook (user code) or the dispose of a primitive
DisposeHook ==
  /\ stack # <<>> /\ Top.op = "dispose" /\ Top.pc = "hooks" /\ Top.todo # <<>>
  /\ IF Head(Top.todo).kind = "hook"
     THEN /\ stack' = [stack EXCEPT ![Len(stack)].todo = Tail(@)]
                        \o <<Frame("user", "dispose", Top.c, Top.t, Top.key, Top.i, <<>>)>>
          /\ hist' = [hist EXCEPT !.ran[Top.i] = Append(@, Head(Top.todo).id)]
     ELSE /\ stack' = [stack EXCEPT ![Len(stack)].todo = Tail(@)]
          /\ hist' = [hist EXCEPT !.released[Top.i] = @ + 1]
  /\ UNCHANGED <<registry, maps, instances, model, calls, backups, ovarsC>>

\* disposeNotifier.clear(); dispose returns
DisposeClear ==
  /\ stack # <<>> /\ Top.op = "dispose" /\ Top.pc = "hooks" /\ Top.todo = <<>>
  /\ model' = [model EXCEPT ![Top.i].disposeNotifier = <<>>]
  /\ stack' = Pop(stack)
  /\ UNCHANGED <<registry, maps, instances, calls, backups, hist, ovarsC>>

\* --------------------------------------------------------- container.delete
CallDelete(t, key) ==
  /\ CanCall
  /\ Count
  /\ LET m == Reg(0)
     IN IF ~MapHas(m, t)
        THEN /\ hist' = HistReset(hist)
             /\ stack' = Called
             /\ UNCHANGED <<maps, instances, model>>
        ELSE IF MapGet(m, t).type = "value"
        THEN /\ maps' = [maps EXCEPT ![registry[0]] = MapDelete(m, t)]
             /\ hist' = HistReset(hist)
             /\ stack' = Called
             /\ UNCHANGED <<instances, model>>
        ELSE LET e == MapGet(m, t).e
                 n == findIndexKey(instances[e], key)
             IN IF n = 0
                THEN /\ hist' = HistReset(hist)
                     /\ stack' = Called
                     /\ UNCHANGED <<maps, instances, model>>
                ELSE LET x == instances[e][n].instance
                         d == dispose(model, Called, x, x \in hist.disposeCalled)
                     IN /\ instances' = [instances EXCEPT ![e] = RemoveAt(@, n)]
                        /\ model' = d.model
                        /\ stack' = d.stack
                        /\ hist' = [HistReset(hist) EXCEPT !.disposeCalled = @ \cup {x}]
                        /\ UNCHANGED maps
  /\ UNCHANGED <<registry, backups, ovarsC>>

\* ------------------------------------------------------ container.deleteAll
\* deleteAll(type): copy the instances, empty the array, dispose the copies
CallDeleteAllOf(t) ==
  /\ CanCall
  /\ Count
  /\ hist' = HistReset(hist)
  /\ LET m == Reg(0)
     IN IF MapHas(m, t) /\ MapGet(m, t).type = "model"
        THEN /\ instances' = [instances EXCEPT ![MapGet(m, t).e] = <<>>]
             /\ stack' = Called \o <<[Frame("deleteAll", "dispose", 0, t, 1, NoInst,
                                            instances[MapGet(m, t).e])
                                        EXCEPT !.copied = instances[MapGet(m, t).e],
                                               !.born = nInst, !.listed = listedOf(0, t)]>>
        ELSE /\ stack' = Called
             /\ UNCHANGED instances
  /\ UNCHANGED <<registry, maps, model, backups, ovarsC>>

\* deleteAll(): registry.forEach over the live Map, then registry.clear()
CallDeleteAll ==
  /\ CanCall
  /\ Count
  /\ hist' = HistReset(hist)
  /\ stack' = Called \o <<[Frame("deleteAll", "forEach", 0, "T", 1, NoInst, <<>>)
                           EXCEPT !.all = TRUE, !.born = nInst, !.listed = listedIn(0)]>>
  /\ UNCHANGED <<registry, maps, instances, model, backups, ovarsC>>

\* registry.forEach reaches the next entry: a model entry is copied and emptied
DeleteAllEntry ==
  /\ stack # <<>> /\ Top.op = "deleteAll" /\ Top.pc = "forEach"
  /\ Top.pos <= Len(Reg(Top.c))
  /\ LET entry == Reg(Top.c)[Top.pos].entry
     IN IF entry.type = "model"
        THEN /\ instances' = [instances EXCEPT ![entry.e] = <<>>]
             /\ stack' = [stack EXCEPT ![Len(stack)].pc = "dispose",
                                       ![Len(stack)].todo = instances[entry.e],
                                       ![Len(stack)].copied = @ \o instances[entry.e],
                                       ![Len(stack)].pos = @ + 1]
        ELSE /\ stack' = [stack EXCEPT ![Len(stack)].pos = @ + 1]
             /\ UNCHANGED instances
  /\ UNCHANGED <<registry, maps, model, calls, backups, hist, ovarsC>>

\* forEach is through: registry.clear().  An enclosing forEach over the same
\* Map goes on with the entries set after the clear.
DeleteAllClear ==
  /\ stack # <<>> /\ Top.op = "deleteAll" /\ Top.pc = "forEach"
  /\ Top.pos > Len(Reg(Top.c))
  /\ maps' = [maps EXCEPT ![registry[Top.c]] = <<>>]
  /\ stack' = [j \in 1..Len(stack) |->
                 IF j = Len(stack) THEN [stack[j] EXCEPT !.pc = "end"]
                 ELSE IF stack[j].op = "deleteAll" /\ stack[j].all /\ stack[j].c = Top.c
                 THEN [stack[j] EXCEPT !.pos = 1]
                 ELSE stack[j]]
  /\ UNCHANGED <<registry, instances, model, calls, backups, hist, ovarsC>>

\* disposeInstances: try { x.instance.dispose() } for the next copied entry
DeleteAllDispose ==
  /\ stack # <<>> /\ Top.op = "deleteAll" /\ Top.pc = "dispose" /\ Top.todo # <<>>
  /\ LET x == Head(Top.todo).instance
         d == dispose(model, [stack EXCEPT ![Len(stack)].todo = Tail(@),
                                           ![Len(stack)].tried = Append(@, x)], x,
                      x \in hist.disposeCalled)
     IN /\ model' = d.model
        /\ stack' = d.stack
        /\ hist' = [hist EXCEPT !.disposeCalled = @ \cup {x}]
  /\ UNCHANGED <<registry, maps, instances, calls, backups, ovarsC>>

\* the copied entries are through: the next registry entry, or the end
DeleteAllDisposed ==
  /\ stack # <<>> /\ Top.op = "deleteAll" /\ Top.pc = "dispose" /\ Top.todo = <<>>
  /\ stack' = [stack EXCEPT ![Len(stack)].pc = IF Top.all THEN "forEach" ELSE "end"]
  /\ UNCHANGED <<registry, maps, instances, model, calls, backups, hist, ovarsC>>

\* if (error) throw error; otherwise deleteAll returns
DeleteAllEnd ==
  /\ stack # <<>> /\ Top.op = "deleteAll" /\ Top.pc = "end"
  /\ stack' = IF Top.err # 0 THEN Unwind(Pop(stack), Top.err) ELSE Pop(stack)
  /\ hist' = IF Top.err # 0 THEN Escaped(hist, Pop(stack), Top.err) ELSE hist
  /\ UNCHANGED <<registry, maps, instances, model, calls, backups, ovarsC>>

\* ------------------------------------------------------------------ user code
\* the builder or hook that is running returns
UserReturn ==
  /\ Running
  /\ stack' = Pop(stack)
  /\ UNCHANGED <<registry, maps, instances, model, calls, backups, hist, ovarsC>>

\* the builder or hook that is running throws
UserThrow ==
  /\ Running /\ hist.threw < MaxThrows
  /\ hist' = Escaped([hist EXCEPT !.threw = @ + 1], Pop(stack), Top.i)
  /\ stack' = Unwind(Pop(stack), Top.i)
  /\ UNCHANGED <<registry, maps, instances, model, calls, backups, ovarsC>>

\* deleteAll with dispose hooks that throw or get: the test gets instances
\* and calls deleteAll; the dispose hooks return, throw, or call get;
\* builders and init hooks register their hooks and return
AtTop == stack = <<>>
InDisposeHook == stack # <<>> /\ Top.op = "user" /\ Top.pc = "dispose"
NextDeleteAll ==
  \/ \E t \in Types : \E key \in KeysOf(t) : (AtTop \/ InDisposeHook) /\ CallGet(t, key)
  \/ GetRegister
  \/ GetInitHook
  \/ GetReady
  \/ BuilderOnInit
  \/ BuilderOnDispose
  \/ BuilderPrimitive
  \/ DisposeChild
  \/ DisposeOnDispose
  \/ DisposeHook
  \/ DisposeClear
  \/ \E t \in Types : AtTop /\ CallDeleteAllOf(t)
  \/ AtTop /\ CallDeleteAll
  \/ DeleteAllEntry
  \/ DeleteAllClear
  \/ DeleteAllDispose
  \/ DeleteAllDisposed
  \/ DeleteAllEnd
  \/ UserReturn
  \/ InDisposeHook /\ UserThrow

\* the life of the instances of one keyless type: the test and the init
\* hooks get and dispose them; any code but the builder's body calls
\* state(...) late; init hooks may throw
InInitHook == stack # <<>> /\ Top.op = "user" /\ Top.pc = "init"
NextLifecycle ==
  \/ \E key \in KeysOf("U") : (AtTop \/ InInitHook) /\ CallGet("U", key)
  \/ GetRegister
  \/ GetInitHook
  \/ GetReady
  \/ BuilderOnInit
  \/ BuilderOnDispose
  \/ BuilderPrimitive
  \/ \E i \in Insts : ContextPrimitive(i)
  \/ \E i \in Insts : (AtTop \/ InInitHook) /\ CallDispose(i)
  \/ DisposeChild
  \/ DisposeOnDispose
  \/ DisposeHook
  \/ DisposeClear
  \/ UserReturn
  \/ InInitHook /\ UserThrow

\* nested instances: the test gets a parent, builders use(type, key) and
\* the builders of nested instances get from their own container; init and
\* dispose hooks return
NextNested ==
  \/ \E key \in KeysOf("U") : AtTop /\ CallGet("U", key)
  \/ \E key \in KeysOf("T") : AtTop /\ CallGet("T", key)
  \/ GetRegister
  \/ GetInitHook
  \/ GetReady
  \/ BuilderOnInit
  \/ BuilderOnDispose
  \/ BuilderPrimitive
  \/ \E key \in KeysOf("T") : BuilderUse("T", key)
  \/ \E key \in KeysOf("T") : ContextGet("T", key)
  \/ UserReturn

NextContainer ==
  \/ \E t \in Types : \E key \in KeysOf(t) : CallGet(t, key)
  \/ GetRegister
  \/ GetInitHook
  \/ GetReady
  \/ BuilderOnInit
  \/ BuilderOnDispose
  \/ BuilderPrimitive
  \/ \E t \in Types : \E key \in KeysOf(t) : BuilderUse(t, key)
  \/ \E i \in Insts : CallDispose(i)
  \/ DisposeChild
  \/ DisposeOnDispose
  \/ DisposeHook
  \/ DisposeClear
  \/ \E t \in Types : \E key \in KeysOf(t) : CallDelete(t, key)
  \/ \E t \in Types : CallDeleteAllOf(t)
  \/ CallDeleteAll
  \/ DeleteAllEntry
  \/ DeleteAllClear
  \/ DeleteAllDispose
  \/ DeleteAllDisposed
  \/ DeleteAllEnd
  \/ UserReturn
  \/ UserThrow

\* ------------------------------------------ container.set, backup, restore
\* what get(k) gives for a key a value is registered under; 0: no value
getValue(c, k) ==
  IF MapHas(Reg(c), k) /\ MapGet(Reg(c), k).type = "value"
  THEN MapGet(Reg(c), k).value
  ELSE 0

\* set(key, impl), and the assignment through the named facade
CallSet(k, v) ==
  /\ stack = <<>>
  /\ maps' = [maps EXCEPT ![registry[0]] = MapSet(@, k, ValueEntry(v))]
  /\ hist' = [hist EXCEPT !.last = 0]
  /\ UNCHANGED <<registry, instances, model, stack, calls, backups, ovarsC>>

\* new MapEx(registry): the constructor sets every entry of the Map in turn
RECURSIVE MapEx(_, _)
MapEx(entries, acc) ==
  IF entries = <<>> THEN acc
  ELSE MapEx(Tail(entries), MapSet(acc, Head(entries).key, Head(entries).entry))

\* backup(): prevRegistry and a copy are captured by the returned function;
\* `registry` itself is not assigned
CallBackup ==
  /\ stack = <<>>
  /\ Len(backups) < MaxBackups
  /\ LET id == MaxInst + Len(backups) + 1
     IN /\ maps' = [maps EXCEPT ![id] = MapEx(Reg(0), <<>>)]
        /\ backups' = Append(backups, [prevRegistry |-> registry[0], newRegistry |-> id])
  /\ hist' = [hist EXCEPT !.at = Append(@, [k \in RegKeys |-> getValue(0, k)]), !.last = 0]
  /\ UNCHANGED <<registry, instances, model, stack, calls, ovarsC>>

\* a plausible slip: restore installs the copy taken by backup()
restore_snapshot(reg, b) == b.newRegistry
\* the function backup() returned: if (newRegistry === registry) registry = prevRegistry
restore(reg, b) == IF b.newRegistry = reg THEN b.prevRegistry ELSE reg

Differs(n) == \E k \in RegKeys : getValue(0, k) # hist.at[n][k]

CallRestore(n) ==
  /\ stack = <<>>
  /\ n \in 1..Len(backups)
  /\ registry' = [registry EXCEPT ![0] = restore(registry[0], backups[n])]
  /\ hist' = [hist EXCEPT !.last = n]
  /\ UNCHANGED <<maps, instances, model, stack, calls, backups, ovarsC>>

NextRegistry ==
  \/ \E k \in RegKeys : \E v \in Values : CallSet(k, v)
  \/ \E k \in RegKeys : CallDelete(k, 1)
  \/ CallBackup
  \/ \E n \in 1..MaxBackups : CallRestore(n)

\* ================================================================ storage
\* strings are sequences of characters
Default == <<"d", "e", "f", "a", "u", "l", "t">>
StorageNames == {Default, <<"s">>}
TypeNames == {<<"T">>, <<"U">>}
PValues == {1, 2}                \* values stored and written
\* the keys handed to state() and resource(): "c", "s:c", and "x:c" whose
\* storage the container does not have
PKeys == {<<"c">>, <<"s", ":", "c">>, <<"x", ":", "c">>}

\* key.split(':')
RECURSIVE splitFrom(_, _, _)
splitFrom(str, i, part) ==
  IF i > Len(str) THEN <<part>>
  ELSE IF str[i] = ":" THEN <<part>> \o splitFrom(str, i + 1, <<>>)
  ELSE splitFrom(str, i + 1, Append(part, str[i]))
split(str) == splitFrom(str, 1, <<>>)

\* a plausible slip: the prefix is never looked at
storageName_default(parts) == Default
\* parts.length > 1 ? parts[0] : 'default'
storageName(parts) == IF Len(parts) > 1 THEN parts[1] ELSE Default
\* parts.length > 1 ? parts[1] : parts[0]
storageKey(parts) == IF Len(parts) > 1 THEN parts[2] ELSE parts[1]
\* `${type.name}/${storageKey}`
fullStorageKey(typeName, parts) == typeName \o <<"/">> \o storageKey(parts)

NoAccessor == [name |-> <<>>, key |-> <<>>]
\* getStorageAccessor(key) of an instance of the type: the storage and the
\* physical key its exist/get/set work on, or NoAccessor where it throws
getStorageAccessor(typeName, key) ==
  LET parts == split(key)
  IN IF storageName(parts) \in DOMAIN storages
     THEN [name |-> storageName(parts), key |-> fullStorageKey(typeName, parts)]
     ELSE NoAccessor

\* Map.has, Map.get and Map.set of a storage
exist(stores, acc) == acc.key \in DOMAIN stores[acc.name]
storageGet(stores, acc) == stores[acc.name][acc.key]
storageSet(stores, acc, value) ==
  [stores EXCEPT ![acc.name] =
     [fk \in DOMAIN @ \cup {acc.key} |-> IF fk = acc.key THEN value ELSE @[fk]]]

\* ================================================================ resource
RValues == {1, 2}                \* values a loader resolves with
Reason == 1                      \* the reason a loader rejects with
Outcomes == {[ok |-> TRUE, value |-> v] : v \in RValues} \cup {[ok |-> FALSE, value |-> Reason]}
undefined == 0
\* what loadFn gives back, as waitAll's getResult classifies it: a future not
\* settled yet (a plain value or a throw is wrapped into one by
\* convertToPromise), or one known to the status cache as resolved or rejected
Loaders ==
  {[kind |-> "pending", value |-> undefined]} \cup
  {[kind |-> IF o.ok THEN "resolved" ELSE "rejected", value |-> o.value] : o \in Outcomes}

\* ------------------------------------------------------------ createDefer
createDefer ==
  [status |-> "pending", realStatus |-> "pending", realValue |-> undefined, isPausing |-> FALSE]
syncStatus_whilePausing(d) ==
  IF d.realStatus = "pending" THEN d ELSE [d EXCEPT !.status = d.realStatus]
syncStatus(d) ==
  IF d.realStatus = "pending" \/ d.isPausing THEN d ELSE [d EXCEPT !.status = d.realStatus]
resolve(d, value) ==
  IF d.realStatus # "pending" THEN d
  ELSE syncStatus([d EXCEPT !.realStatus = "resolved", !.realValue = value])
reject(d, reason) ==
  IF d.realStatus # "pending" THEN d
  ELSE syncStatus([d EXCEPT !.realStatus = "rejected", !.realValue = reason])

NoResult == [status |-> "none", value |-> undefined]
NoHook == [d |-> 0, state |-> "none"]
NoInitial == [has |-> FALSE, value |-> undefined]

InitR ==
  /\ current = [status |-> "idle", value |-> undefined]
  /\ version = 0
  /\ disposed = FALSE
  /\ defers = <<createDefer>>
  /\ defer = 1
  /\ promise = 1
  /\ runs = <<>>
  /\ notified = <<>>
  /\ promiseResults = NoResult
  /\ hook = NoHook
  /\ initial = NoInitial

ovarsR == <<cvars, svars, pstate, persist, xvars>>

\* update(status, value): assign and notify when status or value differs
update(cur, log, status, value) ==
  IF cur.status # status \/ cur.value # value
  THEN [current |-> [status |-> status, value |-> value],
        notified |-> Append(log, [status |-> status, value |-> value])]
  ELSE [current |-> cur, notified |-> log]

\* setResult(promise, result): Object.assign onto the entry the cache holds,
\* or the result itself when it holds none; both fields are overwritten
setResult(existing, result) ==
  IF existing = NoResult THEN result
  ELSE [existing EXCEPT !.status = result.status, !.value = result.value]

\* the tail of update(): the status is mirrored into the cache entry
updateResult(existing, status, value) ==
  IF status = "loading" THEN setResult(existing, [status |-> "pending", value |-> undefined])
  ELSE IF status = "failed" THEN setResult(existing, [status |-> "rejected", value |-> value])
  ELSE IF status = "succeeded" THEN setResult(existing, [status |-> "resolved", value |-> value])
  ELSE existing

\* the then-callbacks of getResult, called when the future they were attached
\* to settles: they overwrite the entry with the outcome of that future
onSettled(existing, dd) ==
  [existing EXCEPT !.status = dd.status, !.value = dd.realValue]

\* the future of controller h.d settles in a step made by user code: the
\* callbacks are queued behind the rest of that code
queueHook(h, ds) ==
  IF h.state = "waiting" /\ ds[h.d].status # "pending" THEN [h EXCEPT !.state = "queued"] ELSE h

\* a plausible slip: the pending branch of waitAll reports nothing
onPending_silent(cur, log) == [current |-> cur, notified |-> log]
\* waitAll's onPending callback of the effect: update("loading", undefined)
onPending(cur, log) == update(cur, log, "loading", undefined)

Settled(ok) == IF ok THEN "succeeded" ELSE "failed"
\* a plausible slip: the effect waits for every future, known or not
Run_unclassified(d, k, init) ==
  [d |-> d, src |-> IF init.has THEN "initial" ELSE "loader",
   will |-> IF init.has THEN init.value ELSE undefined,
   kind |-> "pending", status |-> IF init.has THEN "pending" ELSE k.kind,
   value |-> IF init.has THEN undefined ELSE k.value]
\* a load run: the controller it captured, where its value comes from (the
\* loader or the stored initial value), how waitAll classified the future it
\* waits for and how that future has settled
Run(d, k, init) ==
  IF init.has
  THEN [d |-> d, src |-> "initial", will |-> init.value,
        kind |-> "pending", status |-> "pending", value |-> undefined]
  ELSE [d |-> d, src |-> "loader", will |-> undefined,
        kind |-> k.kind, status |-> k.kind, value |-> k.value]

\* the subscriber resource(key, loadFn) adds: a notification of status
\* succeeded writes the value through the storage accessor
persistLoadable(stores, acc, before, after) ==
  IF acc # NoAccessor /\ after # before /\ after.status = "succeeded"
  THEN storageSet(stores, acc, after.value)
  ELSE stores

\* a plausible slip: the stored value is used by every run
consume_keep(init) == init
\* initial = undefined, once its value is taken
consume(init) == NoInitial

\* the effect body, run at construction and on every change of the version or
\* of a dependency; ver is the version it reads, k what the loader gives back
effect(ver, k) ==
  IF disposed \/ ver = 0
  THEN UNCHANGED <<defers, defer, promise, runs, current, notified, promiseResults, hook,
                    initial, storages>>
  ELSE LET fresh == defers[defer].status # "pending"
           ds == IF fresh THEN Append(defers, createDefer) ELSE defers
           d == IF fresh THEN Len(ds) ELSE defer
           run == Run(d, k, initial)
           u == IF run.kind = "pending" THEN onPending(current, notified)
                ELSE update(current, notified, Settled(run.kind = "resolved"), run.value)
           ds2 == IF run.kind = "pending" THEN ds
                  ELSE IF run.kind = "resolved" THEN [ds EXCEPT ![d] = resolve(@, run.value)]
                  ELSE [ds EXCEPT ![d] = reject(@, run.value)]
       IN /\ defer' = d
          /\ promise' = IF fresh THEN d ELSE promise
          /\ defers' = ds2
          /\ runs' = Append(runs, run)
          /\ initial' = IF initial.has THEN consume(initial) ELSE initial
          /\ current' = u.current
          /\ notified' = u.notified
          /\ storages' = persistLoadable(storages, persist, current, u.current)
          /\ promiseResults' =
               updateResult(promiseResults,
                            IF run.kind = "pending" THEN "loading"
                            ELSE Settled(run.kind = "resolved"),
                            run.value)
          /\ hook' = queueHook(hook, ds2)

\* a plausible slip: load() writes the version whatever it is
shouldLoad_always(ver) == TRUE
\* load(): if (!version())
shouldLoad(ver) == ver = 0

\* load(): if (!version()) version(1); the write runs the effect when it
\* changes the version, unless dispose() has cleared the version's subscribers
Load(k) ==
  /\ Len(runs) < MaxRuns \/ ~shouldLoad(version)
  /\ IF shouldLoad(version)
     THEN /\ version' = 1
          /\ IF disposed \/ version = 1
             THEN UNCHANGED <<defers, defer, promise, runs, current, notified, promiseResults, hook,
                    initial, storages>>
             ELSE effect(1, k)
     ELSE UNCHANGED <<version, defers, defer, promise, runs, current, notified,
                    promiseResults, hook, initial, storages>>
  /\ UNCHANGED <<disposed, ovarsR>>

\* reload(): version(x => x + 1)
Reload(k) ==
  /\ version < MaxRuns /\ Len(runs) < MaxRuns
  /\ version' = version + 1
  /\ IF disposed
     THEN UNCHANGED <<defers, defer, promise, runs, current, notified, promiseResults, hook,
                    initial, storages>>
     ELSE effect(version + 1, k)
  /\ UNCHANGED <<disposed, ovarsR>>

\* the effect is subscribed to the dependencies its latest run read (the
\* loader reads them, a run fed by the stored initial value reads none), until
\* dispose() runs its cleanup
subscribed == ~disposed /\ runs # <<>> /\ runs[Len(runs)].src = "loader"

\* a dependency of the loader is written: the effect runs again if subscribed
DepChange(k) ==
  /\ Len(runs) < MaxRuns
  /\ IF subscribed THEN effect(version, k)
     ELSE UNCHANGED <<defers, defer, promise, runs, current, notified, promiseResults, hook,
                    initial, storages>>
  /\ UNCHANGED <<version, disposed, ovarsR>>

\* a plausible slip: the callbacks of a run forget to look at `disposed`
stale_undisposed(disp, d, cur) == d # cur
\* the guard of onResolved and onRejected: if (disposed || d !== defer) return
stale(disp, d, cur) == disp \/ d # cur

\* the future run r waits for settles: onResolved or onRejected of the effect.
\* The then-callbacks of getResult queued by this step run right after it.
Settle(r, o) ==
  /\ r \in 1..Len(runs) /\ runs[r].status = "pending"
  /\ hook.state # "queued"
  /\ runs[r].src = "initial" => o = [ok |-> TRUE, value |-> runs[r].will]
  /\ runs' = [runs EXCEPT ![r].status = IF o.ok THEN "resolved" ELSE "rejected",
                           ![r].value = o.value]
  /\ IF stale(disposed, runs[r].d, defer)
     THEN UNCHANGED <<defers, current, notified, promiseResults, hook, storages>>
     ELSE LET u == update(current, notified, Settled(o.ok), o.value)
              ds == [defers EXCEPT ![defer] =
                       IF o.ok THEN resolve(@, o.value) ELSE reject(@, o.value)]
              res == updateResult(promiseResults, Settled(o.ok), o.value)
              h == queueHook(hook, ds)
          IN /\ defers' = ds
             /\ current' = u.current
             /\ notified' = u.notified
             /\ storages' = persistLoadable(storages, persist, current, u.current)
             /\ promiseResults' = IF h.state = "queued" THEN onSettled(res, ds[h.d]) ELSE res
             /\ hook' = IF h.state = "queued" THEN [h EXCEPT !.state = "done"] ELSE h
  /\ UNCHANGED <<version, disposed, defer, promise, initial, ovarsR>>

\* pause(): defer.pause()
Pause ==
  /\ defers[defer].status = "pending" /\ ~defers[defer].isPausing
  /\ defers' = [defers EXCEPT ![defer].isPausing = TRUE]
  /\ UNCHANGED <<current, version, disposed, defer, promise, runs, notified,
                 promiseResults, hook, initial, storages, ovarsR>>

\* the function pause() returned, for controller d
Unpause(d) ==
  /\ d \in 1..Len(defers) /\ defers[d].isPausing
  /\ defers' = [defers EXCEPT ![d] = syncStatus([@ EXCEPT !.isPausing = FALSE])]
  /\ hook' = queueHook(hook, defers')
  /\ UNCHANGED <<current, version, disposed, defer, promise, runs, notified,
                 promiseResults, initial, storages, ovarsR>>

\* dispose() of the resource: if (disposed) return; ...
Dispose ==
  /\ disposed' = TRUE
  /\ promise' = IF disposed THEN promise ELSE 0
  /\ UNCHANGED <<current, version, defers, defer, runs, notified, promiseResults, hook,
                 initial, storages, ovarsR>>

\* what a call can get back from the loader: when the loader does not run
\* there is nothing to draw
Drawn(loaderRuns) ==
  IF loaderRuns THEN Loaders ELSE {[kind |-> "pending", value |-> undefined]}

NextResource ==
  \/ \E k \in Drawn(version = 0 /\ ~disposed) : Load(k)
  \/ \E k \in Drawn(~disposed) : Reload(k)
  \/ \E k \in Drawn(subscribed) : DepChange(k)
  \/ \E r \in 1..MaxRuns : \E o \in Outcomes : Settle(r, o)
  \/ Pause
  \/ \E d \in 1..MaxRuns : Unpause(d)
  \/ Dispose

\* ----------------------------------------------------- the status cache
\* getResult(resource): the entry the cache holds, or a new pending entry
\* whose then-callbacks are attached to the future `promise` names now
GetResult ==
  /\ IF promiseResults # NoResult THEN UNCHANGED <<promiseResults, hook>>
     ELSE /\ promiseResults' = setResult(NoResult, [status |-> "pending", value |-> undefined])
          /\ hook' = IF promise = 0 THEN [d |-> 0, state |-> "never"]
                     ELSE queueHook([d |-> promise, state |-> "waiting"], defers)
  /\ UNCHANGED <<current, version, disposed, defers, defer, promise, runs, notified,
                 initial, storages, ovarsR>>

\* the queued then-callbacks of getResult run once the user code that settled
\* the future has returned
DeliverResult ==
  /\ hook.state = "queued"
  /\ promiseResults' = onSettled(promiseResults, defers[hook.d])
  /\ hook' = [hook EXCEPT !.state = "done"]
  /\ UNCHANGED <<current, version, disposed, defers, defer, promise, runs, notified,
                 initial, storages, ovarsR>>

NextCache ==
  \/ NextResource
  \/ GetResult
  \/ DeliverResult

\* ====================================================== states and effects
\* a and b are static states, sum is the computed state over {a, b}
StateIds == {"a", "b", "sum"}
Statics == {"a", "b"}
SValues == {0, 1, 2}             \* values written to a and b
UserListeners == {"L1", "L2"}    \* listener functions of user code
ovarsS == <<cvars, rvars, pvars, xvars>>

\* callbacks.indexOf(callback) and splice(index, 1): the first occurrence goes
RECURSIVE removeFirst(_, _)
removeFirst(arr, x) ==
  IF arr = <<>> THEN <<>>
  ELSE IF Head(arr) = x THEN Tail(arr)
  ELSE <<Head(arr)>> \o removeFirst(Tail(arr), x)

\* the sample computeFn: it reads a, and b only when a is not 0
computeFn(v) == IF v["a"] = 0 THEN 0 ELSE v["a"] + v["b"]
Reads(v) == IF v["a"] = 0 THEN <<"a">> ELSE <<"a", "b">>

\* cleanupNotifier.invokeAndClear(): every remove function takes one
\* handleChange out of its state's callbacks; st is [cb, cl]
\* a plausible slip: the list is emptied and the remove functions never run
invokeAndClear_keep(st) == [cb |-> st.cb, cl |-> <<>>]
RECURSIVE invokeAndClear(_)
invokeAndClear(st) ==
  IF st.cl = <<>> THEN st
  ELSE invokeAndClear([cb |-> [st.cb EXCEPT ![Head(st.cl)] = removeFirst(@, "handleChange")],
                       cl |-> Tail(st.cl)])

\* a plausible slip: the accessor reads without subscribing
accessorGet_unsubscribed(st, key) == st
\* the accessors proxy: cleanupNotifier(observable.subscribe(handleChange))
accessorGet(st, key) ==
  [cb |-> [st.cb EXCEPT ![key] = Append(@, "handleChange")], cl |-> Append(st.cl, key)]

\* fn(accessors): the accessors computeFn touches, in order
RECURSIVE fn(_, _)
fn(st, keys) ==
  IF keys = <<>> THEN st ELSE fn(accessorGet(st, Head(keys)), Tail(keys))

DispatchFrame(s, arg, cbs) ==
  [op |-> "dispatch", state |-> s, arg |-> arg, todo |-> cbs, expected |-> cbs, invoked |-> <<>>]
UserFrame(l) ==
  [op |-> "user", state |-> "a", arg |-> 0, todo |-> <<>>, expected |-> <<>>, invoked |-> <<l>>]

\* a plausible slip: the setter notifies whatever is written
changed_always(cur, newValue) == TRUE
\* the setter's test: currentValue !== newValue
changed(cur, newValue) == cur # newValue

\* the setter of state s: assign and changeNotifier.invoke(newValue) over a
\* copy of the callbacks when the value differs
setter(vals, cbs, stk, s, newValue) ==
  IF changed(vals[s], newValue)
  THEN [currentValue |-> [vals EXCEPT ![s] = newValue],
        sstack |-> IF cbs[s] = <<>> THEN stk
                   ELSE Append(stk, DispatchFrame(s, newValue, cbs[s]))]
  ELSE [currentValue |-> vals, sstack |-> stk]

\* createComputedState over a = 1 and b = 2: the state starts undefined and
\* createEffect runs fn once, which computes and sets it
InitS ==
  /\ LET vals == [s \in StateIds |-> IF s = "a" THEN 1 ELSE IF s = "b" THEN 2 ELSE undefined]
         st == fn([cb |-> [s \in StateIds |-> <<>>], cl |-> <<>>], Reads(vals))
         w == setter(vals, st.cb, <<>>, "sum", computeFn(vals))
     IN /\ currentValue = w.currentValue
        /\ callbacks = st.cb
        /\ cleanupNotifier = st.cl
        /\ sstack = w.sstack
  /\ subs = <<>>
  /\ scalls = 0

STop == sstack[Len(sstack)]
CanCallS == IF sstack = <<>> THEN TRUE ELSE STop.op = "user" /\ scalls < MaxNested
CountS == scalls' = IF sstack = <<>> THEN scalls ELSE scalls + 1

\* state(value) on a static state
Write(s, v) ==
  /\ CanCallS /\ CountS
  /\ LET w == setter(currentValue, callbacks, sstack, s, v)
     IN /\ currentValue' = w.currentValue
        /\ sstack' = w.sstack
  /\ UNCHANGED <<callbacks, cleanupNotifier, subs, ovarsS>>

\* state.subscribe(l): push, and hand out the remove function
Subscribe(s, l) ==
  /\ CanCallS /\ CountS
  /\ Len(subs) < MaxSubs
  /\ callbacks' = [callbacks EXCEPT ![s] = Append(@, l)]
  /\ subs' = Append(subs, [state |-> s, callback |-> l, active |-> TRUE])
  /\ UNCHANGED <<currentValue, cleanupNotifier, sstack, ovarsS>>

\* a remove function: once only, it takes the first occurrence out
Remove(n) ==
  /\ CanCallS /\ CountS
  /\ n \in 1..Len(subs) /\ subs[n].active
  /\ subs' = [subs EXCEPT ![n].active = FALSE]
  /\ callbacks' = [callbacks EXCEPT ![subs[n].state] = removeFirst(@, subs[n].callback)]
  /\ UNCHANGED <<currentValue, cleanupNotifier, sstack, ovarsS>>

\* a plausible slip: forEach runs over the group's own array, not a copy
forEach_live(f, cbs) ==
  LET live == cbs[f.state]
      last == IF Len(live) < Len(f.expected) THEN Len(live) ELSE Len(f.expected)
  IN SubSeq(live, Len(f.invoked) + 1, last)
\* callbacks.slice().forEach(...) of dispatch frame f: what is still to be
\* called comes from the copy made when invoke started
forEach(f, cbs) == f.todo
Pending == forEach(STop, callbacks)

\* forEach over the copy reaches a listener of user code: it starts running
InvokeListener ==
  /\ sstack # <<>> /\ STop.op = "dispatch" /\ Pending # <<>>
  /\ Head(Pending) # "handleChange"
  /\ sstack' = [sstack EXCEPT ![Len(sstack)].todo = Tail(Pending),
                              ![Len(sstack)].invoked = Append(@, [callback |-> Head(Pending), arg |-> STop.arg])]
                \o <<UserFrame(Head(Pending))>>
  /\ UNCHANGED <<currentValue, callbacks, cleanupNotifier, subs, scalls, ovarsS>>

\* forEach reaches the effect's handleChange: clean up, run fn again, which
\* subscribes as it reads and sets the computed state
handleChange(reads(_)) ==
  /\ sstack # <<>> /\ STop.op = "dispatch" /\ Pending # <<>>
  /\ Head(Pending) = "handleChange"
  /\ LET st == fn(invokeAndClear([cb |-> callbacks, cl |-> cleanupNotifier]), reads(currentValue))
         stk == [sstack EXCEPT ![Len(sstack)].todo = Tail(Pending),
                               ![Len(sstack)].invoked = Append(@, [callback |-> "handleChange", arg |-> STop.arg])]
         w == setter(currentValue, st.cb, stk, "sum", computeFn(currentValue))
     IN /\ callbacks' = st.cb
        /\ cleanupNotifier' = st.cl
        /\ currentValue' = w.currentValue
        /\ sstack' = w.sstack
  /\ UNCHANGED <<subs, scalls, ovarsS>>
HandleChange == handleChange(Reads)

\* the same value computed by a function that goes through the accessors
\* again where it can: x.a() === 1 ? 1 + x.b() : x.a() === 0 ? 0 : x.a() + x.b()
ReadsTwice(v) ==
  IF v["a"] = 1 THEN <<"a", "b">>
  ELSE IF v["a"] = 0 THEN <<"a", "a">> ELSE <<"a", "a", "a", "b">>
HandleChangeTwice == handleChange(ReadsTwice)

\* the listener that is running returns
ListenerReturn ==
  /\ sstack # <<>> /\ STop.op = "user"
  /\ sstack' = SubSeq(sstack, 1, Len(sstack) - 1)
  /\ UNCHANGED <<currentValue, callbacks, cleanupNotifier, subs, scalls, ovarsS>>

\* the copy is through: invoke returns, and with it the write
DispatchEnd ==
  /\ sstack # <<>> /\ STop.op = "dispatch" /\ Pending = <<>>
  /\ sstack' = SubSeq(sstack, 1, Len(sstack) - 1)
  /\ scalls' = IF Len(sstack) = 1 THEN 0 ELSE scalls
  /\ UNCHANGED <<currentValue, callbacks, cleanupNotifier, subs, ovarsS>>

NextState ==
  \/ \E s \in Statics : \E v \in SValues : Write(s, v)
  \/ \E s \in StateIds : \E l \in UserListeners : Subscribe(s, l)
  \/ \E n \in 1..MaxSubs : Remove(n)
  \/ InvokeListener
  \/ HandleChange
  \/ ListenerReturn
  \/ DispatchEnd

\* state.dispose() of a static state: changeNotifier.clear() empties the
\* group's array, the effect's handleChange included
Clear(s) ==
  /\ CanCallS /\ CountS
  /\ callbacks' = [callbacks EXCEPT ![s] = <<>>]
  /\ UNCHANGED <<currentValue, cleanupNotifier, subs, sstack, ovarsS>>

\* dispose() of the computed state: the function createEffect returned runs
\* cleanupNotifier.invokeAndClear(), then the state clears its own subscribers
ComputedDispose ==
  /\ CanCallS /\ CountS
  /\ LET st == invokeAndClear([cb |-> callbacks, cl |-> cleanupNotifier])
     IN /\ callbacks' = [st.cb EXCEPT !["sum"] = <<>>]
        /\ cleanupNotifier' = st.cl
  /\ UNCHANGED <<currentValue, subs, sstack, ovarsS>>

\* the states with the effect disposed at any point, a dispatch included
NextDisposal ==
  \/ NextState
  \/ ComputedDispose

\* the effect of a function that reads a dependency more than once in a run
NextEffect ==
  \/ \E s \in Statics : \E v \in SValues : Write(s, v)
  \/ \E s \in StateIds : \E l \in UserListeners : Subscribe(s, l)
  \/ \E n \in 1..MaxSubs : Remove(n)
  \/ InvokeListener
  \/ HandleChangeTwice
  \/ ListenerReturn
  \/ DispatchEnd

\* the listener group under every call it has: add, remove, invoke, clear
NextGroup ==
  \/ NextState
  \/ \E s \in Statics : Clear(s)

\* createComputedState returns the static state it made, so the computed
\* state takes state(value) from user code like any other state
NextComputed ==
  \/ NextState
  \/ \E v \in SValues : Write("sum", v)

\* ============================================================ persistence
PhysicalKeys == {t \o <<"/", "c">> : t \in TypeNames}
Seeded(stores) == {e \in StorageNames \X PhysicalKeys : e[2] \in DOMAIN stores[e[1]]}
NoState ==
  [made |-> FALSE, live |-> FALSE, threw |-> FALSE, type |-> <<>>, key |-> <<>>,
   acc |-> NoAccessor, value |-> 0, n |-> 0]

InitP ==
  /\ storages = [n \in StorageNames |-> <<>>]
  /\ pstate = NoState
  /\ persist = NoAccessor

\* code outside the container fills a storage before the instance is built
Seed(name, fk, v) ==
  /\ ~pstate.live /\ persist = NoAccessor /\ version = 0
  /\ Cardinality(Seeded(storages) \cup {<<name, fk>>}) <= MaxSeeds
  /\ storages' = storageSet(storages, [name |-> name, key |-> fk], v)
  /\ UNCHANGED <<pstate, persist, cvars, rvars, svars, xvars>>

\* state(key, initialValue) in the builder of an instance of the type: a
\* static state over the stored value if there is one, with a subscriber that
\* writes every new value through the accessor; throws for an unknown storage
CreateState(typeName, key, initialValue) ==
  /\ ~pstate.live /\ pstate.n < MaxSessions
  /\ LET acc == getStorageAccessor(typeName, key)
     IN pstate' =
          IF acc = NoAccessor
          THEN [NoState EXCEPT !.threw = TRUE, !.n = pstate.n + 1]
          ELSE [made |-> TRUE, live |-> TRUE, threw |-> FALSE,
                type |-> typeName, key |-> key, acc |-> acc,
                value |-> IF exist(storages, acc) THEN storageGet(storages, acc)
                          ELSE initialValue,
                n |-> pstate.n + 1]
  /\ UNCHANGED <<storages, persist, cvars, rvars, svars, xvars>>

\* a write to the persisted state: the setter of createStaticState, whose
\* changeNotifier holds the writing subscriber until state.dispose() clears it
PWrite(v) ==
  /\ pstate.made
  /\ IF changed(pstate.value, v)
     THEN /\ pstate' = [pstate EXCEPT !.value = v]
          /\ storages' = IF pstate.live THEN storageSet(storages, pstate.acc, v) ELSE storages
     ELSE UNCHANGED <<pstate, storages>>
  /\ UNCHANGED <<persist, cvars, rvars, svars, xvars>>

\* dispose() of the instance: disposeNotifier calls state.dispose()
PDispose ==
  /\ pstate.live
  /\ pstate' = [pstate EXCEPT !.live = FALSE]
  /\ UNCHANGED <<storages, persist, cvars, rvars, svars, xvars>>

NextPersistedState ==
  \/ \E n \in StorageNames : \E fk \in PhysicalKeys : \E v \in PValues : Seed(n, fk, v)
  \/ \E t \in TypeNames : \E key \in PKeys : \E i \in PValues : CreateState(t, key, i)
  \/ \E v \in PValues : PWrite(v)
  \/ PDispose

\* resource(key, loadFn) in the builder of an instance of type T: the stored
\* value, if there is one, becomes `initial`; the subscriber writes through
\* the accessor; an unknown storage throws and nothing is made
CreateResource(key) ==
  /\ persist = NoAccessor /\ version = 0 /\ runs = <<>> /\ ~disposed /\ hook = NoHook
  /\ LET acc == getStorageAccessor(<<"T">>, key)
     IN /\ persist' = acc
        /\ initial' = IF acc # NoAccessor /\ exist(storages, acc)
                      THEN [has |-> TRUE, value |-> storageGet(storages, acc)]
                      ELSE NoInitial
  /\ UNCHANGED <<current, version, disposed, defers, defer, promise, runs, notified,
                 promiseResults, hook, storages, pstate, cvars, svars, xvars>>

\* the resource of this specification is the persisted one of type T: it is
\* used once resource() has made it
NextPersistedResource ==
  \/ \E n \in StorageNames : \E v \in PValues : Seed(n, <<"T", "/", "c">>, v)
  \/ \E key \in PKeys : CreateResource(key)
  \/ /\ persist # NoAccessor
     /\ \/ \E k \in Drawn(version = 0 /\ ~disposed) : Load(k)
        \/ \E k \in Drawn(~disposed) : Reload(k)
        \/ \E k \in Drawn(subscribed) : DepChange(k)
        \/ \E r \in 1..MaxRuns : \E o \in Outcomes : Settle(r, o)

\* ================================================================ watcher
WDeps == 0..4                    \* values written to the dependency
Equalities == {"Object.is", "supplied"}
NoCurrent == [has |-> FALSE, value |-> undefined]
ovarsW == <<cvars, rvars, svars, pvars, avars, zvars>>

\* the sample evaluate: it reads the dependency and halves it
evaluate(x) == x \div 2
\* the equality of the watcher: Object.is, or the sample supplied one under
\* which two numbers are equal when both or neither are 0
equalBy(eq, a, b) == IF eq = "Object.is" THEN a = b ELSE (a = 0) = (b = 0)

\* a plausible slip: the value evaluated is not kept
remember_stale(cur, next) == cur
\* current = { value: next }
remember(cur, next) == [has |-> TRUE, value |-> next]

\* the function createWatcher hands to createEffect, run with what evaluate
\* gave: [current, changes] after it
watch(w, log, next) ==
  IF ~w.current.has
  THEN [current |-> remember(w.current, next), changes |-> log]
  ELSE IF ~equalBy(w.equal, w.current.value, next)
  THEN [current |-> remember(w.current, next), changes |-> Append(log, next)]
  ELSE [current |-> w.current, changes |-> log]

InitW ==
  /\ dep = 0
  /\ watcher = [made |-> FALSE, equal |-> "Object.is", current |-> NoCurrent]
  /\ changes = <<>>
  /\ evaluated = <<>>

\* createWatcher(dependencies, evaluate, onChange, equal): createEffect runs
\* the function once
CreateWatcher(eq) ==
  /\ ~watcher.made
  /\ LET w == watch([watcher EXCEPT !.equal = eq], changes, evaluate(dep))
     IN /\ watcher' = [made |-> TRUE, equal |-> eq, current |-> w.current]
        /\ changes' = w.changes
  /\ evaluated' = Append(evaluated, evaluate(dep))
  /\ UNCHANGED <<dep, ovarsW>>

\* a write to the dependency: a changed value reruns the effect
WWrite(v) ==
  /\ watcher.made => Len(evaluated) < MaxEvals
  /\ dep' = v
  /\ IF changed(dep, v) /\ watcher.made
     THEN LET w == watch(watcher, changes, evaluate(v))
          IN /\ watcher' = [watcher EXCEPT !.current = w.current]
             /\ changes' = w.changes
             /\ evaluated' = Append(evaluated, evaluate(v))
     ELSE UNCHANGED <<watcher, changes, evaluated>>
  /\ UNCHANGED ovarsW

NextWatcher ==
  \/ \E eq \in Equalities : CreateWatcher(eq)
  \/ \E v \in WDeps : WWrite(v)

\* ======================================================= waitAll, waitAny
\* the futures a call is given, as getResult classifies them
AReasons == {1, 2}
Futures ==
  {[status |-> "pending", value |-> undefined]} \cup
  {[status |-> "resolved", value |-> v] : v \in RValues} \cup
  {[status |-> "rejected", value |-> e] : e \in AReasons}
MemberLists == UNION {[1..n -> Futures] : n \in 1..MaxMembers}
Forms == {"sync", "callback"}
ovarsA == <<cvars, rvars, svars, pvars, wvars, zvars>>

\* what is returned, thrown or handed to a callback: a tag and the values
Nothing == [tag |-> "none", value |-> <<>>]
Thrown(reason) == [tag |-> "reason", value |-> <<reason>>]
FutureOf(kind) == [tag |-> kind, value |-> <<>>]
Raw(value) == [tag |-> "value", value |-> <<value>>]
resolvedValues(ms) == [tag |-> "values", value |-> [i \in 1..Len(ms) |-> ms[i].value]]
OneEntry(key, value) == [tag |-> "map", value |-> <<key, value>>]
Invoked(cb, arg) == [cb |-> cb, arg |-> arg]
NoCall == [fn |-> "none", form |-> "sync", returned |-> Nothing, thrown |-> Nothing,
           called |-> <<>>]
NoCombined == [kind |-> "none", status |-> "pending", value |-> Nothing]

\* results.find(x => x.status === status): the index of the first, or 0
RECURSIVE find(_, _, _)
find(ms, i, status) ==
  IF i > Len(ms) THEN 0
  ELSE IF ms[i].status = status THEN i
  ELSE find(ms, i + 1, status)

\* a plausible slip: a rejected member is looked for only when none is pending
rejectedResult_afterPending(ms) ==
  IF find(ms, 1, "pending") # 0 THEN 0 ELSE find(ms, 1, "rejected")
\* results.find((x) => x.status === "rejected")
rejectedResult(ms) == find(ms, 1, "rejected")

\* what a call leaves: [returned, thrown, called, combined]
Outcome(returned, thrown, called, kind) ==
  [returned |-> returned, thrown |-> thrown, called |-> called,
   combined |-> IF kind = "none" THEN NoCombined ELSE [NoCombined EXCEPT !.kind = kind]]

\* waitAll(values) and waitAll(values, onResolved, onRejected, onPending)
waitAll(ms, form) ==
  LET r == rejectedResult(ms)
  IN IF r # 0
     THEN IF form = "callback"
          THEN Outcome(Nothing, Nothing, <<Invoked("onRejected", Thrown(ms[r].value))>>, "none")
          ELSE Outcome(Nothing, Thrown(ms[r].value), <<>>, "none")
     ELSE IF find(ms, 1, "pending") # 0
     THEN IF form = "callback"
          THEN Outcome(Nothing, Nothing, <<Invoked("onPending", Nothing)>>, "all")
          ELSE Outcome(Nothing, FutureOf("all"), <<>>, "all")
     ELSE IF form = "callback"
          THEN Outcome(Nothing, Nothing, <<Invoked("onResolved", resolvedValues(ms))>>, "none")
          ELSE Outcome(resolvedValues(ms), Nothing, <<>>, "none")

\* a plausible slip: a resolved entry is preferred to a rejected one before it
settledAt_resolvedFirst(ms, i) ==
  IF find(ms, 1, "resolved") # 0 THEN find(ms, 1, "resolved") ELSE find(ms, 1, "rejected")
RECURSIVE settledAt(_, _)
\* results.some(...): the index of the first entry, from i on, that is
\* rejected or resolved, or 0
settledAt(ms, i) ==
  IF i > Len(ms) THEN 0
  ELSE IF ms[i].status = "rejected" \/ ms[i].status = "resolved" THEN i
  ELSE settledAt(ms, i + 1)

\* waitAny(values) and waitAny(values, onResolved, onRejected, onPending);
\* the key of an entry is its place in Object.entries(values)
waitAny(ms, form) ==
  LET i == settledAt(ms, 1)
  IN IF i = 0
     THEN IF form = "callback"
          THEN Outcome(Nothing, Nothing, <<Invoked("onPending", Nothing)>>, "race")
          ELSE Outcome(Nothing, FutureOf("race"), <<>>, "race")
     ELSE IF ms[i].status = "rejected"
     THEN IF form = "callback"
          THEN Outcome(Nothing, Nothing, <<Invoked("onRejected", Thrown(ms[i].value))>>, "none")
          ELSE Outcome(Nothing, Thrown(ms[i].value), <<>>, "none")
     ELSE IF form = "callback"
          THEN Outcome([tag |-> "true", value |-> <<>>], Nothing,
                       <<Invoked("onResolved", OneEntry(i, ms[i].value))>>, "none")
          ELSE Outcome(OneEntry(i, ms[i].value), Nothing, <<>>, "none")

InitA ==
  /\ members = <<>>
  /\ acall = NoCall
  /\ combined = NoCombined

\* a call of waitAll or waitAny on a list of futures
Wait(name, form, ms) ==
  /\ acall = NoCall
  /\ LET out == IF name = "waitAll" THEN waitAll(ms, form) ELSE waitAny(ms, form)
     IN /\ acall' = [fn |-> name, form |-> form, returned |-> out.returned,
                     thrown |-> out.thrown, called |-> out.called]
        /\ combined' = out.combined
  /\ members' = ms
  /\ UNCHANGED ovarsA

\* Promise.all and Promise.race of the members, after member i settled
settleCombined(c, ms, i) ==
  IF c.kind = "none" \/ c.status # "pending" THEN c
  ELSE IF ms[i].status = "rejected"
  THEN [c EXCEPT !.status = "rejected", !.value = Thrown(ms[i].value)]
  ELSE IF c.kind = "race"
  THEN [c EXCEPT !.status = "resolved", !.value = Raw(ms[i].value)]
  ELSE IF find(ms, 1, "pending") = 0
  THEN [c EXCEPT !.status = "resolved", !.value = resolvedValues(ms)]
  ELSE c

\* a pending member settles after the call; if that settles the combined
\* future of a call in callback form, then(onResolved, onRejected) calls one
ASettle(i, status, value) ==
  /\ acall # NoCall
  /\ i \in 1..Len(members) /\ members[i].status = "pending"
  /\ members' = [members EXCEPT ![i] = [status |-> status, value |-> value]]
  /\ combined' = settleCombined(combined, members', i)
  /\ acall' = IF acall.form = "callback" /\ combined'.status # combined.status
              THEN [acall EXCEPT !.called =
                      Append(@, Invoked(IF combined'.status = "resolved"
                                       THEN "onResolved" ELSE "onRejected",
                                       combined'.value))]
              ELSE acall
  /\ UNCHANGED ovarsA

NextAsync ==
  \/ \E name \in {"waitAll", "waitAny"} : \E form \in Forms : \E ms \in MemberLists :
       Wait(name, form, ms)
  \/ \E i \in 1..MaxMembers : \E v \in RValues : ASettle(i, "resolved", v)
  \/ \E i \in 1..MaxMembers : \E e \in AReasons : ASettle(i, "rejected", e)


\* ==================================================== deferred controller
\* what resolve and reject are called with: a plain value, or (resolve
\* accepts T | PromiseLike<T>) a future that will fulfil with the value v,
\* Fulfils(v), or reject with the reason v, Rejects(v)
DPlain == {1, 2}
Fulfils(v) == 10 + v
Rejects(v) == 20 + v
DFutures == {Fulfils(1), Rejects(1)}
DArgs == DPlain \cup DFutures
isPromiseLike(v) == v \in DFutures
ovarsD == <<cvars, rvars, svars, pvars, wvars, avars, nvars, gvars, mvars>>

\* new Promise((resolve, reject) => ...): nothing decided yet
NewPromise == [state |-> "pending", value |-> undefined, calls |-> 0]

\* the resolve function of the Promise executor: the first call decides; a
\* future given as the value is followed instead of being the value
promiseResolve(p, v) ==
  IF p.state # "pending" THEN [p EXCEPT !.calls = @ + 1]
  ELSE [state |-> IF isPromiseLike(v) THEN "following" ELSE "fulfilled",
        value |-> v, calls |-> p.calls + 1]

\* the reject function of the Promise executor
promiseReject(p, r) ==
  IF p.state # "pending" THEN [p EXCEPT !.calls = @ + 1]
  ELSE [state |-> "rejected", value |-> r, calls |-> p.calls + 1]

\* the part of syncStatus that reaches the future
deliver(d, p) ==
  IF d.realStatus = "pending" \/ d.isPausing THEN p
  ELSE IF d.realStatus = "resolved" THEN promiseResolve(p, d.realValue)
  ELSE promiseReject(p, d.realValue)

InitD ==
  /\ ctl = createDefer
  /\ future = NewPromise
  /\ unpauses = <<>>
  /\ dcalls = <<>>

\* defer.resolve(value)
DResolve(value) ==
  /\ Len(dcalls) < MaxDCalls /\ dcalls' = Append(dcalls, "resolve")
  /\ ctl' = resolve(ctl, value)
  /\ future' = IF ctl.realStatus # "pending" THEN future ELSE deliver(ctl', future)
  /\ UNCHANGED <<unpauses, ovarsD>>

\* defer.reject(reason)
DReject(reason) ==
  /\ Len(dcalls) < MaxDCalls /\ dcalls' = Append(dcalls, "reject")
  /\ ctl' = reject(ctl, reason)
  /\ future' = IF ctl.realStatus # "pending" THEN future ELSE deliver(ctl', future)
  /\ UNCHANGED <<unpauses, ovarsD>>

\* defer.pause(): noop is returned once the status is no longer pending
DPause ==
  /\ Len(unpauses) < MaxPauses
  /\ Len(dcalls) < MaxDCalls /\ dcalls' = Append(dcalls, "pause")
  /\ IF ctl.status # "pending"
     THEN /\ unpauses' = Append(unpauses, "noop")
          /\ UNCHANGED ctl
     ELSE /\ unpauses' = Append(unpauses, "unpause")
          /\ ctl' = [ctl EXCEPT !.isPausing = TRUE]
  /\ UNCHANGED <<future, ovarsD>>

\* calling the h-th function pause() returned
DUnpause(h) ==
  /\ h \in 1..Len(unpauses)
  /\ Len(dcalls) < MaxDCalls /\ dcalls' = Append(dcalls, "unpause")
  /\ IF unpauses[h] = "noop" \/ ~ctl.isPausing
     THEN UNCHANGED <<ctl, future>>
     ELSE /\ ctl' = syncStatus([ctl EXCEPT !.isPausing = FALSE])
          /\ future' = deliver(ctl', future)
  /\ UNCHANGED <<unpauses, ovarsD>>

\* the future that was given to resolve settles, and the controller's future
\* with it
DFollow ==
  /\ future.state = "following"
  /\ future' = IF future.value \in {Fulfils(v) : v \in DPlain}
               THEN [future EXCEPT !.state = "fulfilled", !.value = @ - 10]
               ELSE [future EXCEPT !.state = "rejected", !.value = @ - 20]
  /\ UNCHANGED <<ctl, unpauses, dcalls, ovarsD>>

NextDefer ==
  \/ \E v \in DArgs : DResolve(v)
  \/ \E r \in DPlain : DReject(r)
  \/ DPause
  \/ \E h \in 1..MaxPauses : DUnpause(h)
  \/ DFollow

\* =========================================================== named facade
\* named({p1: 1, p3: createContainer.lazy()}): the dependencies object is
\* an object literal, so it inherits the properties of Object.prototype
Declared == {"p1", "p3"}
ObjectPrototype == {"toString"}
Props == Declared \cup ObjectPrototype \cup {"q"}
NValues == {1, 2}                \* runtime values assigned through the facade
lazy == 9                        \* the placeholder createContainer.lazy() makes
dependencies == [p \in Declared |-> IF p = "p1" THEN 1 ELSE lazy]
NoEntry == [type |-> "none", value |-> 0]
NoRead == [op |-> "none", prop |-> "", threw |-> FALSE, value |-> 0]
ovarsN == <<cvars, rvars, svars, pvars, wvars, avars, dvars, gvars, mvars>>

isLazy(value) == value = lazy
\* prop in dependencies: own and inherited properties alike
hasProperty(prop) == prop \in DOMAIN dependencies \/ prop \in ObjectPrototype

InitN ==
  /\ nreg = [p \in Props |-> NoEntry]
  /\ nout = NoRead

\* container.named(dependencies): every entry goes into the registry as a value
named ==
  /\ stack = <<>>
  /\ nreg' = [p \in Props |-> IF p \in DOMAIN dependencies
                               THEN [type |-> "value", value |-> dependencies[p]]
                               ELSE nreg[p]]
  /\ nout' = [op |-> "named", prop |-> "", threw |-> FALSE, value |-> 0]
  /\ UNCHANGED ovarsN

\* the get trap of the facade: a read of named[prop]
NamedGet(prop) ==
  /\ stack = <<>> /\ nout.op # "none"
  /\ nout' =
       IF ~hasProperty(prop)
       THEN [op |-> "read", prop |-> prop, threw |-> TRUE, value |-> 0]
       ELSE IF nreg[prop].type = "value"
       THEN IF isLazy(nreg[prop].value)
            THEN [op |-> "read", prop |-> prop, threw |-> TRUE, value |-> 0]
            ELSE [op |-> "read", prop |-> prop, threw |-> FALSE, value |-> nreg[prop].value]
       ELSE [op |-> "read", prop |-> prop, threw |-> FALSE, value |-> undefined]
  /\ UNCHANGED <<nreg, ovarsN>>

\* the set trap of the facade: named[prop] = value
NamedSet(prop, value) ==
  /\ stack = <<>> /\ nout.op # "none"
  /\ IF ~hasProperty(prop)
     THEN /\ nout' = [op |-> "assign", prop |-> prop, threw |-> TRUE, value |-> value]
          /\ UNCHANGED nreg
     ELSE /\ nout' = [op |-> "assign", prop |-> prop, threw |-> FALSE, value |-> value]
          /\ nreg' = [nreg EXCEPT ![prop] = [type |-> "value", value |-> value]]
  /\ UNCHANGED ovarsN

\* container.get(type) with a falsy type: it throws before it looks anything up
GetInvalid ==
  /\ stack = <<>>
  /\ nout' = [op |-> "get", prop |-> "", threw |-> TRUE, value |-> 0]
  /\ UNCHANGED <<nreg, ovarsN>>

\* the calls user code gets wrong, next to the ones it gets right
NextUsage ==
  \/ named
  \/ \E prop \in Props : NamedGet(prop)
  \/ \E prop \in Props : \E value \in NValues \cup {lazy} : NamedSet(prop, value)
  \/ GetInvalid
  \/ \E t \in TypeNames : \E key \in PKeys : \E i \in PValues : CreateState(t, key, i)
  \/ PDispose

\* ========================================================= listener group
MaxRegs == 3                     \* registration calls made on the group
\* the argument lists of the registration calls
NewCallbacks == {<<"L1">>, <<"L2">>, <<"L1", "L2">>}
ovarsG == <<cvars, rvars, svars, pvars, wvars, avars, dvars, nvars, mvars>>

\* callbacks.indexOf(callback), then splice(index, 1) when it is there
RECURSIVE spliceFirst(_, _)
spliceFirst(arr, callback) ==
  IF arr = <<>> THEN <<>>
  ELSE IF Head(arr).callback = callback THEN Tail(arr)
  ELSE <<Head(arr)>> \o spliceFirst(Tail(arr), callback)

\* newCallbacks.forEach of the remove function
RECURSIVE removeEach(_, _)
removeEach(arr, newCallbacks) ==
  IF newCallbacks = <<>> THEN arr
  ELSE removeEach(spliceFirst(arr, Head(newCallbacks)), Tail(newCallbacks))

InitG ==
  /\ group = <<>>
  /\ removers = <<>>

\* group(...newCallbacks): push them all and hand out the remove function
GroupAdd(newCallbacks) ==
  /\ Len(removers) < MaxRegs
  /\ group' = group \o [n \in 1..Len(newCallbacks) |->
                          [callback |-> newCallbacks[n], reg |-> Len(removers) + 1]]
  /\ removers' = Append(removers, [newCallbacks |-> newCallbacks, active |-> TRUE])
  /\ UNCHANGED ovarsG

\* the remove function of registration call n: it acts once
GroupRemove(n) ==
  /\ n \in 1..Len(removers)
  /\ IF removers[n].active
     THEN /\ removers' = [removers EXCEPT ![n].active = FALSE]
          /\ group' = removeEach(group, removers[n].newCallbacks)
     ELSE UNCHANGED gvars
  /\ UNCHANGED ovarsG

\* group.clear(): callbacks.length = 0
GroupClear ==
  /\ group # <<>>
  /\ group' = <<>>
  /\ UNCHANGED <<removers, ovarsG>>

NextListeners ==
  \/ \E newCallbacks \in NewCallbacks : GroupAdd(newCallbacks)
  \/ \E n \in 1..MaxRegs : GroupRemove(n)
  \/ GroupClear

\* ---------------------------------------------------------------- MapEx
\* keys handed to the MapEx: the objects of KeyObjs (1 and 2 have the same
\* content) and two primitives
PrimKeys == {11, 12}
MKeys == KeyObjs \cup PrimKeys
MValues == {1, 2}
ovarsM == <<cvars, rvars, svars, pvars, wvars, avars, dvars, nvars, gvars>>

\* a plausible slip: every key goes to the native Map
isObjectKey_never(key) == FALSE
\* typeof key === "object" && key !== null
isObjectKey(key) == key \in KeyObjs

\* objectEntries.find(entry => equal(entry.key, key)) / nonObjectMap.get(key);
\* 0 stands for undefined
MapExGet(key) ==
  IF isObjectKey(key)
  THEN IF findIndexKey(objectEntries, key) = 0 THEN 0
       ELSE objectEntries[findIndexKey(objectEntries, key)].entry
  ELSE IF MapHas(nonObjectMap, key) THEN MapGet(nonObjectMap, key) ELSE 0

MapExHas(key) ==
  IF isObjectKey(key)
  THEN \E n \in 1..Len(objectEntries) : equal(objectEntries[n].key, key)
  ELSE MapHas(nonObjectMap, key)

MapExSize == Len(nonObjectMap) + Len(objectEntries)

InitM ==
  /\ nonObjectMap = <<>>
  /\ objectEntries = <<>>
  /\ mcall = [op |-> "new", key |-> 0, value |-> 0, result |-> FALSE]

MapExSet(key, value) ==
  /\ IF isObjectKey(key)
     THEN /\ objectEntries' =
               IF findIndexKey(objectEntries, key) # 0
               THEN [objectEntries EXCEPT ![findIndexKey(objectEntries, key)].entry = value]
               ELSE Append(objectEntries, [key |-> key, entry |-> value])
          /\ UNCHANGED nonObjectMap
     ELSE /\ nonObjectMap' = MapSet(nonObjectMap, key, value)
          /\ UNCHANGED objectEntries
  /\ mcall' = [op |-> "set", key |-> key, value |-> value, result |-> TRUE]
  /\ UNCHANGED ovarsM

MapExDelete(key) ==
  /\ IF isObjectKey(key)
     THEN /\ objectEntries' =
               IF findIndexKey(objectEntries, key) # 0
               THEN RemoveAt(objectEntries, findIndexKey(objectEntries, key))
               ELSE objectEntries
          /\ mcall' = [op |-> "delete", key |-> key, value |-> 0,
                          result |-> findIndexKey(objectEntries, key) # 0]
          /\ UNCHANGED nonObjectMap
     ELSE /\ nonObjectMap' = MapDelete(nonObjectMap, key)
          /\ mcall' = [op |-> "delete", key |-> key, value |-> 0,
                          result |-> MapHas(nonObjectMap, key)]
          /\ UNCHANGED objectEntries
  /\ UNCHANGED ovarsM

MapExClear ==
  /\ nonObjectMap' = <<>>
  /\ objectEntries' = <<>>
  /\ mcall' = [op |-> "clear", key |-> 0, value |-> 0, result |-> TRUE]
  /\ UNCHANGED ovarsM

NextMapEx ==
  \/ \E key \in MKeys, value \in MValues : MapExSet(key, value)
  \/ \E key \in MKeys : MapExDelete(key)
  \/ MapExClear

vars == <<cvars, rvars, svars, pvars, xvars>>

Init == InitC /\ InitR /\ InitS /\ InitP /\ InitW /\ InitA /\ InitD /\ InitN /\ InitG /\ InitM

SpecContainer == Init /\ [][NextContainer]_vars
SpecRegistry == Init /\ [][NextRegistry]_vars
SpecResource == Init /\ [][NextResource]_vars
SpecCache == Init /\ [][NextCache]_vars
SpecPersistedState == Init /\ [][NextPersistedState]_vars
SpecPersistedResource == Init /\ [][NextPersistedResource]_vars
SpecWatcher == Init /\ [][NextWatcher]_vars
SpecAsync == Init /\ [][NextAsync]_vars
SpecState == Init /\ [][NextState]_vars
SpecDefer == Init /\ [][NextDefer]_vars
SpecDeleteAll == Init /\ [][NextDeleteAll]_vars
SpecLifecycle == Init /\ [][NextLifecycle]_vars
SpecNested == Init /\ [][NextNested]_vars
SpecComputed == Init /\ [][NextComputed]_vars
SpecUsage == Init /\ [][NextUsage]_vars
SpecGroup == Init /\ [][NextGroup]_vars
SpecListeners == Init /\ [][NextListeners]_vars
SpecEffect == Init /\ [][NextEffect]_vars
SpecDisposal == Init /\ [][NextDisposal]_vars
SpecMapEx == Init /\ [][NextMapEx]_vars

\* ============================================================ the claims
\* C1: with no delete, deleteAll or dispose in between, get(T, k1) and
\* get(T, k2) return the identical instance when k1 and k2 are deep-equal,
\* and distinct instances when the keys differ structurally.
\* hist.got[T, shape] is the instance the latest get of (T, shape) returned
\* since the latest delete, deleteAll or dispose call.
C1_SameKeySameInstance ==
  [][/\ \A x \in Types \X Shapes :
          (hist.got[x] # NoInst /\ hist'.got[x] # NoInst) => hist'.got[x] = hist.got[x]
     /\ \A x, y \in Types \X Shapes :
          (x # y /\ hist'.got[x] # NoInst) => hist'.got[x] # hist'.got[y]]_vars

\* C2: in every reachable state the instance list of each model type holds
\* at most one entry per deep-equal key.
C2_AtMostOnePerKey ==
  \A c \in Containers : \A n \in 1..Len(Reg(c)) :
    Reg(c)[n].entry.type = "model" =>
      LET arr == instances[Reg(c)[n].entry.e]
      IN \A a, b \in 1..Len(arr) : a # b => ~equal(arr[a].key, arr[b].key)

Nested(i) == {j \in Insts : model[j].container = i /\ j \in hist.returned}
Listed(i) ==
  \E n \in 1..Len(getAll(model[i].container, model[i].type)) :
    getAll(model[i].container, model[i].type)[n].instance = i
C8_DisposeReleases ==
  [][\A i \in Insts :
       (stack # <<>> /\ Top.op = "dispose" /\ Top.i = i /\ Top.pc = "hooks") =>
         IF Top.todo = <<>>
         THEN /\ ~Listed(i)'
              /\ hist.ran[i] = [n \in 1..MaxHooks |-> n]
              /\ hist.released[i] = MaxPrims
         ELSE \A j \in Nested(i) : model[j].phase = "disposed"]_vars

\* C9: after restore = backup() and overrides, with no further backup(),
\* restore() reverts the registry: every key resolves again to the value it
\* had when backup() was called.
C9_RestoreReverts ==
  (hist.last # 0 /\ hist.last = Len(backups)) =>
     \A k \in RegKeys : getValue(0, k) = hist.at[hist.last][k]

\* C10: a restore function called after a later backup() leaves every
\* registry entry unchanged, the overrides made since its own backup included.
C10_SupersededRestoreNoEffect ==
  [][\A n \in 1..MaxBackups :
       (n < Len(backups) /\ CallRestore(n)) => UNCHANGED <<registry, maps>>]_vars
C10_Witness ==
  \E n \in 1..Len(backups) :
    /\ hist.last = n /\ n < Len(backups)
    /\ Differs(n)

\* C3: a resource starts idle; load() on an idle resource whose loader gives
\* back a future not settled yet puts it in loading before load() returns,
\* reload() from succeeded or failed puts it back in loading, the settling of
\* that run puts it in succeeded(value) or failed(error), and the status
\* never returns to idle.
C3_Lifecycle ==
  /\ current.status = "idle"
  /\ [][/\ current.status # "idle" => current'.status # "idle"
        /\ \A k \in Loaders :
             (k.kind = "pending" /\ ~disposed /\ current.status = "idle" /\ Load(k))
                => current'.status = "loading"
        /\ \A k \in Loaders :
             (k.kind = "pending" /\ ~disposed
                /\ current.status \in {"succeeded", "failed"} /\ Reload(k))
                => current'.status = "loading"
        /\ \A o \in Outcomes :
             (~disposed /\ runs # <<>> /\ Settle(Len(runs), o))
                => current' = [status |-> Settled(o.ok), value |-> o.value]]_vars
C3_Witness ==
  /\ Len(runs) >= 2 /\ version >= 2 /\ ~disposed
  /\ \A r \in 1..Len(runs) : runs[r].kind = "pending"
  /\ runs[1].status = "rejected" /\ runs[2].status = "resolved"
  /\ Len(notified) = 4
  /\ current = [status |-> "succeeded", value |-> runs[2].value]

\* C4: the completion of a load that a later load has superseded does not
\* change the status or value, notifies no subscriber and does not settle the
\* resource's future; once every run has settled, the Loadable is the result
\* of the run started last.
C4_StaleLoadIgnored ==
  /\ [][\A r \in 1..MaxRuns : \A o \in Outcomes :
          (r < Len(runs) /\ Settle(r, o)) => UNCHANGED <<current, notified, defers>>]_vars
  /\ []((~disposed /\ runs # <<>> /\ \A r \in 1..Len(runs) : runs[r].status # "pending")
          => current = [status |-> Settled(runs[Len(runs)].status = "resolved"),
                        value |-> runs[Len(runs)].value])

\* C5: a write to a static state with a value that is not the current one
\* calls every listener subscribed at that moment exactly once, in
\* subscription order, with the new value, before the write returns; a write
\* of the current value calls no listener and changes nothing.
C5_NotifyOncePerChange ==
  [][/\ \A s \in Statics : \A v \in SValues :
          (Write(s, v) /\ currentValue[s] = v) =>
             UNCHANGED <<currentValue, callbacks, sstack>>
     /\ \A s \in Statics : \A v \in SValues :
          (Write(s, v) /\ currentValue[s] # v /\ callbacks[s] # <<>>) =>
             /\ STop' = DispatchFrame(s, v, callbacks[s])
             /\ currentValue'[s] = v
     /\ (DispatchEnd /\ STop.state \in Statics) =>
          STop.invoked = [n \in 1..Len(STop.expected) |->
                            [callback |-> STop.expected[n], arg |-> STop.arg]]]_vars
C5_Witness ==
  /\ sstack # <<>> /\ STop.op = "dispatch" /\ STop.state \in Statics
  /\ STop.todo = <<>> /\ Len(STop.invoked) >= 2
  /\ \E n \in 1..Len(STop.invoked) :
       /\ STop.invoked[n].callback \in UserListeners
       /\ \A k \in 1..Len(callbacks[STop.state]) :
            callbacks[STop.state][k] # STop.invoked[n].callback

\* C6: the computed state holds computeFn(dependencies) after construction
\* and whenever a write to a dependency has returned.
C6_ComputedFollows ==
  sstack = <<>> => currentValue["sum"] = computeFn(currentValue)
C6_Witness ==
  /\ sstack = <<>>
  /\ currentValue["a"] = 2 /\ currentValue["b"] = 2 /\ currentValue["sum"] = 4
  /\ Len(callbacks["a"]) >= 2 /\ callbacks["a"][Len(callbacks["a"])] = "handleChange"

\* C11: load() changes nothing once the version is non-zero, so with no reload
\* and no dependency change only the first load() of a live resource starts a
\* run, exactly one; every reload() raises the version by one and, on a live
\* resource, starts exactly one new run.
C11_LoadOnce ==
  [][/\ version # 0 => \A k \in Drawn(FALSE) : Load(k) => UNCHANGED rvars
     /\ (version = 0 /\ ~disposed) =>
          \A k \in Loaders : Load(k) => (version' = 1 /\ Len(runs') = 1)
     /\ \A k \in Drawn(~disposed) :
          Reload(k) => /\ version' = version + 1
                       /\ ~disposed => Len(runs') = Len(runs) + 1]_vars
C11_Witness == ~disposed /\ version = 2 /\ Len(runs) = 2

\* C12: the cache entry of the resource agrees with its status: loading with
\* pending, succeeded(v) with resolved v, failed(e) with rejected e.
C12_CacheAgrees ==
  /\ current.status = "loading" => promiseResults.status = "pending"
  /\ current.status = "succeeded" =>
       promiseResults = [status |-> "resolved", value |-> current.value]
  /\ current.status = "failed" =>
       promiseResults = [status |-> "rejected", value |-> current.value]

\* C13: once disposed, no step changes the status or value, notifies a
\* subscriber or starts a load run; `promise` is the future that never
\* settles, so a then() callback registered from then on is never called;
\* dispose() again changes nothing.
C13_DisposedInert ==
  [][/\ Dispose => (disposed' /\ promise' = 0)
     /\ disposed => /\ disposed'
                    /\ UNCHANGED <<current, notified>>
                    /\ Len(runs') = Len(runs)
                    /\ promise' = 0
                    /\ Dispose => UNCHANGED rvars]_vars
\* a run of the current controller settled and was not delivered to it
C13_Witness ==
  /\ disposed /\ current.status = "loading"
  /\ defers[defer].realStatus = "pending"
  /\ \E r \in 1..Len(runs) : runs[r].d = defer /\ runs[r].kind = "pending"
                             /\ runs[r].status # "pending"

\* C14: the failure of the latest load run of a live resource is captured,
\* whether the loader's future is already known as rejected or rejects later:
\* the status is failed with the reason, the cache entry is rejected with the
\* reason, and the future of the resource rejects with the reason.
Captured(reason) ==
  /\ current = [status |-> "failed", value |-> reason]
  /\ promiseResults = [status |-> "rejected", value |-> reason]
  /\ promise # 0
  /\ defers[promise].realStatus = "rejected" /\ defers[promise].realValue = reason
C14_FailureCaptured ==
  [][/\ \A r \in 1..MaxRuns : \A o \in Outcomes :
          (Settle(r, o) /\ ~o.ok /\ r = Len(runs) /\ ~disposed) => Captured(o.value)'
     /\ \A k \in Loaders :
          ((Load(k) \/ Reload(k) \/ DepChange(k)) /\ k.kind = "rejected"
             /\ Len(runs') = Len(runs) + 1) => Captured(k.value)']_vars

\* the storage and the entry the claims name for key '[storageName:]c' in a type
Selected(key) == IF key = <<"c">> THEN Default ELSE <<key[1]>>
Entry(typeName) == typeName \o <<"/", "c">>

\* C15: a persisted state made with state('[storageName:]c', initial) in a
\* type starts with the value of entry 'Type/c' of the selected storage if the
\* entry exists and with `initial` otherwise; after every value-changing write
\* before the instance is disposed that entry equals the current value, and
\* no other storage has changed.
C15_PersistedState ==
  [][/\ \A t \in TypeNames : \A key \in PKeys : \A i \in PValues :
          (CreateState(t, key, i) /\ Selected(key) \in StorageNames) =>
             /\ pstate'.live
             /\ pstate'.value = IF Entry(t) \in DOMAIN storages[Selected(key)]
                                THEN storages[Selected(key)][Entry(t)] ELSE i
     /\ \A v \in PValues :
          (PWrite(v) /\ pstate.live /\ v # pstate.value) =>
             /\ pstate'.value = v
             /\ Entry(pstate.type) \in DOMAIN storages'[Selected(pstate.key)]
             /\ storages'[Selected(pstate.key)][Entry(pstate.type)] = v
             /\ \A n \in StorageNames \ {Selected(pstate.key)} : storages'[n] = storages[n]]_vars
\* a state of type T in storage s, built a second time, holds what it wrote
C15_Witness ==
  /\ pstate.live /\ pstate.n = 2
  /\ pstate.type = <<"T">> /\ pstate.key = <<"s", ":", "c">>
  /\ DOMAIN storages[<<"s">>] = {<<"T", "/", "c">>}
  /\ storages[<<"s">>][<<"T", "/", "c">>] = pstate.value
  /\ DOMAIN storages[Default] = {}

\* C16: a persisted resource whose entry exists at creation feeds its first
\* load run from the stored value and not from the loader; every later run
\* invokes the loader; the run fed by the stored value resolves with it; and
\* every change to succeeded leaves the resolved value in the entry.
C16_PersistedResource ==
  [][persist # NoAccessor =>
       /\ Len(runs') = Len(runs) + 1 =>
            IF Len(runs) = 0 /\ exist(storages, persist)
            THEN /\ runs'[1].src = "initial"
                 /\ runs'[1].will = storageGet(storages, persist)
            ELSE runs'[Len(runs')].src = "loader"
       /\ \A r \in 1..Len(runs) :
            (runs[r].src = "initial" /\ runs[r].status = "pending"
               /\ runs'[r].status # "pending") =>
              (runs'[r].status = "resolved" /\ runs'[r].value = runs[r].will)
       /\ (current'.status = "succeeded" /\ current' # current) =>
            (exist(storages', persist) /\ storageGet(storages', persist) = current'.value)]_vars
C16_Witness ==
  /\ persist # NoAccessor /\ Len(runs) = 2
  /\ runs[1].src = "initial" /\ runs[1].status = "resolved"
  /\ runs[2].src = "loader" /\ runs[2].status = "resolved" /\ runs[2].value # runs[1].will
  /\ current = [status |-> "succeeded", value |-> runs[2].value]
  /\ storageGet(storages, persist) = runs[2].value

\* how often the effect's handleChange is among the callbacks of state s
RECURSIVE CountOf(_, _)
CountOf(arr, x) ==
  IF arr = <<>> THEN 0 ELSE (IF Head(arr) = x THEN 1 ELSE 0) + CountOf(Tail(arr), x)
Range(seq) == {seq[i] : i \in 1..Len(seq)}
SubscribedTo(deps) ==
  \A s \in Statics : CountOf(callbacks[s], "handleChange") = IF s \in deps THEN 1 ELSE 0

\* C17: a run of the effect reads what its function reads of the current
\* values, and from then on the effect is subscribed exactly once to each
\* state read in the latest run and to no other; a value-changing write to a
\* state read in the latest run puts handleChange among the callbacks to call,
\* a write to a state not read does not.
C17_SubscribedToReads ==
  /\ SubscribedTo(Range(cleanupNotifier))
  /\ [][/\ HandleChange => Range(cleanupNotifier') = Range(Reads(currentValue))
        /\ SubscribedTo(Range(cleanupNotifier))'
        /\ \A s \in Statics : \A v \in SValues :
             (Write(s, v) /\ v # currentValue[s]) =>
               ((s \in Range(cleanupNotifier)) <=>
                  (/\ Len(sstack') = Len(sstack) + 1
                   /\ "handleChange" \in Range(sstack'[Len(sstack')].todo)))]_vars
\* the latest run read a only (a is 0) and b has been written since
C17_Witness ==
  /\ sstack = <<>> /\ currentValue["a"] = 0 /\ currentValue["b"] # 2
  /\ cleanupNotifier = <<"a">> /\ callbacks["b"] = <<>>
  /\ CountOf(callbacks["a"], "handleChange") = 1

Places(ms, status) == {i \in 1..Len(ms) : ms[i].status = status}
Least(S) == CHOOSE i \in S : \A j \in S : i <= j

\* C19: waitAll surfaces the first rejected member in list order if there is
\* one, even when others are pending; else, if a member is pending, the sync
\* form throws the combined future and the callback form calls onPending, and
\* onResolved or onRejected once the combined future settles; else it gives
\* the resolved values in input order. The callback form calls exactly one
\* callback synchronously and throws nothing.
C19_WaitAllPriority ==
  [][/\ \A form \in Forms : \A ms \in MemberLists :
          Wait("waitAll", form, ms) =>
            LET R == Places(ms, "rejected")
                P == Places(ms, "pending")
                vals == [tag |-> "values", value |-> [i \in 1..Len(ms) |-> ms[i].value]]
                first == IF R # {} THEN Invoked("onRejected", Thrown(ms[Least(R)].value))
                         ELSE IF P # {} THEN Invoked("onPending", Nothing)
                         ELSE Invoked("onResolved", vals)
            IN /\ form = "callback" =>
                    (acall'.called = <<first>> /\ acall'.thrown = Nothing)
               /\ form = "sync" =>
                    /\ acall'.called = <<>>
                    /\ acall'.thrown = IF R # {} THEN Thrown(ms[Least(R)].value)
                                       ELSE IF P # {} THEN FutureOf("all") ELSE Nothing
                    /\ acall'.returned = IF R = {} /\ P = {} THEN vals ELSE Nothing
               /\ (combined'.kind = "all") = (R = {} /\ P # {})
     /\ \A i \in 1..MaxMembers : \A f \in Futures :
          (ASettle(i, f.status, f.value) /\ acall.fn = "waitAll"
             /\ acall.form = "callback" /\ combined.kind = "all"
             /\ combined.status = "pending") =>
            acall'.called =
              IF f.status = "rejected"
              THEN Append(acall.called, Invoked("onRejected", Thrown(f.value)))
              ELSE IF Places(members', "pending") = {}
              THEN Append(acall.called,
                          Invoked("onResolved",
                                  [tag |-> "values",
                                   value |-> [j \in 1..Len(members) |-> members'[j].value]]))
              ELSE acall.called]_vars
\* a rejected member after a pending one was surfaced by a callback-form call
C19_Witness ==
  /\ acall.fn = "waitAll" /\ acall.form = "callback"
  /\ Len(members) = 2 /\ members[1].status = "pending" /\ members[2].status = "rejected"
  /\ acall.called = <<Invoked("onRejected", Thrown(members[2].value))>>

Carried(v) == IF isPromiseLike(v) THEN v % 10 ELSE v
FutureSettled(p) == p.state \in {"fulfilled", "rejected"}

\* C21: the first resolve or reject call fixes the outcome and later calls
\* are ignored; a status that has become resolved or rejected never changes
\* again under resolve, reject, pause and unpause; the future settles at most
\* once, and with the first decided outcome and value.
C21_FirstOutcomeWins ==
  [][ /\ ctl.realStatus # "pending" =>
           ctl'.realStatus = ctl.realStatus /\ ctl'.realValue = ctl.realValue
      /\ ctl.status # "pending" => ctl'.status = ctl.status
      /\ FutureSettled(future) =>
           future'.state = future.state /\ future'.value = future.value
      /\ future'.calls <= 1
      /\ FutureSettled(future') =>
           /\ future'.state = IF ctl'.realStatus = "resolved" THEN "fulfilled" ELSE "rejected"
           /\ future'.value = Carried(ctl'.realValue) ]_vars

\* C22: while the controller is paused resolve and reject only record the
\* outcome (the status stays pending, the future is untouched); calling the
\* function pause() returned delivers a recorded outcome at once; pause and
\* unpause never change the recorded outcome; pause() after delivery changes
\* nothing and the function it returns does nothing.
C22_PauseBuffers ==
  [][ /\ ((\E v \in DArgs : DResolve(v) \/ DReject(v)) /\ ctl.isPausing) =>
           /\ ctl'.status = "pending" /\ ctl'.isPausing
           /\ future' = future
      /\ \A h \in 1..MaxPauses :
           (DUnpause(h) /\ h <= Len(unpauses) /\ ctl.isPausing
              /\ unpauses[h] = "unpause" /\ ctl.realStatus # "pending") =>
             /\ ctl'.status = ctl.realStatus
             /\ future' = IF ctl.realStatus = "resolved"
                          THEN promiseResolve(future, ctl.realValue)
                          ELSE promiseReject(future, ctl.realValue)
             /\ future.state = "pending" /\ future'.state # "pending"
      /\ (DPause \/ \E h \in 1..MaxPauses : DUnpause(h)) =>
           ctl'.realStatus = ctl.realStatus /\ ctl'.realValue = ctl.realValue
      /\ (DPause /\ ctl.status # "pending") =>
           /\ UNCHANGED <<ctl, future>>
           /\ unpauses'[Len(unpauses')] = "noop"
      /\ \A h \in 1..MaxPauses :
           (DUnpause(h) /\ h <= Len(unpauses) /\ unpauses[h] = "noop") =>
             UNCHANGED <<ctl, future>> ]_vars

\* an outcome was recorded while paused, the function pause() returned
\* delivered it, and pause() was called again after the delivery
C22_Witness ==
  /\ dcalls = <<"pause", "reject", "unpause", "pause">>
  /\ ctl.status = "rejected" /\ future.state = "rejected"
  /\ unpauses = <<"unpause", "noop">>

\* ------------------------------------------------------------- deleteAll
InstancesOf(arr) == [n \in 1..Len(arr) |-> arr[n].instance]
NoDup(seq) == \A m, n \in 1..Len(seq) : seq[m] = seq[n] => m = n
\* deleteAll of the container under test is about to return or rethrow
Ending == DeleteAllEnd /\ Top.c = 0
\* what the call disposed: each instance it copied once and in order, and
\* every instance listed when it was called
Attempted ==
  /\ Top.tried = InstancesOf(Top.copied) /\ NoDup(Top.tried)
  /\ Top.listed \subseteq hist.disposeCalled
\* the exception that leaves the call: that of the last disposal that failed
Rethrown ==
  IF Top.caught = <<>>
  THEN stack' = Pop(stack) /\ hist' = hist
  ELSE LET last == Top.caught[Len(Top.caught)]
       IN /\ stack' = Unwind(Pop(stack), last)
          /\ hist' = Escaped(hist, Pop(stack), last)

C24_PrimitivesOnlyInBuilder ==
  [][\A i \in Insts :
       /\ (model'[i].phase = "pre-init" /\ i \in hist'.returned) => BuilderRunning(i)'
       /\ BuilderRunning(i)' => model'[i].phase = "pre-init"
       /\ model'[i].nPrim # model[i].nPrim => BuilderRunning(i)
       /\ (ContextPrimitive(i) /\ ~BuilderRunning(i)) =>
            /\ model' = model
            /\ IF stack = <<>> THEN hist'.thrown = UsageError
               ELSE stack' = Unwind(Pop(stack), UsageError)]_vars

\* state(...) was called on an instance after its builder returned, by an
\* init hook that nothing catches: the error reached the test, and the
\* instance holds only the primitives its builder created
C24_Witness ==
  /\ hist.thrown = UsageError /\ stack = <<>>
  /\ \E i \in Insts : model[i].phase = "init" /\ model[i].nPrim = MaxPrims

\* C25: the init hooks a builder registered are each invoked exactly once,
\* in registration order, by the get call that created the instance, after
\* the builder returned and the instance was listed; an instance that a get
\* call has handed to the test has had all of them invoked, and no later
\* get invokes them again.
C25_InitHooksOnce ==
  [][\A i \in Insts :
       /\ hist'.initRan[i] # hist.initRan[i] =>
            /\ GetInitHook /\ Top.i = i /\ ~BuilderRunning(i)
            /\ hist.initRan[i] = <<>> => i \in listedOf(model[i].container, model[i].type)
            /\ hist'.initRan[i] = [n \in 1..(Len(hist.initRan[i]) + 1) |-> n]
       /\ (stack' = <<>> /\ i \in hist'.returned) =>
            hist'.initRan[i] = [n \in 1..model'[i].nInit |-> n]]_vars

\* C26: the phase of an instance only moves forward along pre-init, init,
\* ready, disposed; once disposed it stays disposed, whatever is called
\* afterwards or re-entrantly.
PhaseRank(phase) ==
  CASE phase = "none" -> 0 [] phase = "pre-init" -> 1 [] phase = "init" -> 2
    [] phase = "ready" -> 3 [] phase = "disposed" -> 4
C26_PhaseForward ==
  [][\A i \in Insts : PhaseRank(model[i].phase) <= PhaseRank(model'[i].phase)]_vars

\* ------------------------------------------------------ nested instances
\* C27: repeated use(type, key) by one parent yields the same nested
\* instance; a nested instance lives in the parent's child container, is not
\* the instance get(type, key) returns on the outer container nor the nested
\* instance of another parent, and is never listed by the outer container.
C27_UsePrivate ==
  [][/\ \A x \in DOMAIN hist.used :
          (hist.used[x] # NoInst /\ hist'.used[x] # NoInst) => hist'.used[x] = hist.used[x]
     /\ \A x, y \in DOMAIN hist'.used :
          (hist'.used[x] # NoInst /\ x[1] # y[1]) => hist'.used[x] # hist'.used[y]
     /\ \A x \in DOMAIN hist'.used : \A i \in Insts :
          hist'.used[x] = i =>
            /\ model'[i].container = x[1]
            /\ i \notin listedIn(0)'
            /\ \A g \in DOMAIN hist'.got : hist'.got[g] # i]_vars

\* ------------------------------------------------------ computed state
\* C28: a computed state cannot be set externally; calling it with a value
\* leaves its value as it was and notifies no subscriber.
C28_ComputedNotSettable ==
  [][\A v \in SValues :
       Write("sum", v) => /\ currentValue'["sum"] = currentValue["sum"]
                          /\ sstack' = sstack]_vars

\* ----------------------------------------------------------- usage errors
\* C29: usage errors are thrown at the call and leave the registry as it
\* was: get with a falsy type throws; a persisted state whose key names an
\* unknown storage throws; a read or an assignment through the named facade
\* of a name that was not declared throws; a read of a declared name that
\* still holds a lazy placeholder throws, and succeeds with the value once a
\* value has been assigned.
RegistryKept == nreg' = nreg /\ registry' = registry /\ maps' = maps /\ instances' = instances
C29_UsageErrorsThrow ==
  [][/\ GetInvalid => nout'.threw /\ RegistryKept
     /\ \A t \in TypeNames : \A key \in PKeys : \A i \in PValues :
          (CreateState(t, key, i) /\ storageName(split(key)) \notin StorageNames)
            => pstate'.threw /\ ~pstate'.made /\ RegistryKept
     /\ \A prop \in Props \ Declared :
          /\ NamedGet(prop) => nout'.threw /\ RegistryKept
          /\ \A value \in NValues : NamedSet(prop, value) => nout'.threw /\ RegistryKept
     /\ \A prop \in Declared :
          NamedGet(prop) =>
            IF isLazy(nreg[prop].value) THEN nout'.threw /\ RegistryKept
            ELSE ~nout'.threw /\ nout'.value = nreg[prop].value]_vars

\* ---------------------------------------------------------- listener group
\* what a dispatch that called its whole copy has called
Dispatched(f) == [n \in 1..Len(f.expected) |-> [callback |-> f.expected[n], arg |-> f.arg]]
\* C30: invoke(args) calls every listener registered when it starts exactly
\* once, in registration order, with the arguments given; a listener added
\* or removed, or a clear(), during the dispatch changes nothing about the
\* dispatch in progress and shows only in later dispatches.
C30_InvokeFrozenCopy ==
  [][/\ (Len(sstack') > Len(sstack) /\ sstack'[Len(sstack')].op = "dispatch") =>
          LET f == sstack'[Len(sstack')]
          IN f.expected = callbacks'[f.state] /\ f.expected # <<>> /\ f.invoked = <<>>
     /\ \A n \in 1..Len(sstack) :
          (n <= Len(sstack') /\ sstack[n].op = "dispatch") =>
             /\ sstack'[n].expected = sstack[n].expected
             /\ sstack'[n].arg = sstack[n].arg
             /\ \/ sstack'[n].invoked = sstack[n].invoked
                \/ /\ Len(sstack[n].invoked) < Len(sstack[n].expected)
                   /\ sstack'[n].invoked = SubSeq(Dispatched(sstack[n]), 1, Len(sstack[n].invoked) + 1)
     /\ DispatchEnd => STop.invoked = Dispatched(STop)]_vars
\* a dispatch has called both listeners of its copy although the group was
\* cleared by one of them
C30_Witness ==
  /\ sstack # <<>> /\ STop.op = "dispatch"
  /\ Len(STop.expected) = 2 /\ STop.invoked = Dispatched(STop)
  /\ callbacks[STop.state] = <<>>

\* ------------------------------------------------------- remove functions
\* the functions in the array, and the array without what call n pushed
RECURSIVE Without(_, _)
Without(arr, n) ==
  IF arr = <<>> THEN <<>>
  ELSE IF Head(arr).reg = n THEN Without(Tail(arr), n)
  ELSE <<Head(arr)>> \o Without(Tail(arr), n)
Functions(arr) == [k \in 1..Len(arr) |-> arr[k].callback]
\* C31: the remove function of a registration call removes the listeners
\* that call added and nothing else, whenever and however often it is
\* called: the listeners other calls added stay, in their order.
C31_RemoveOwnOnly ==
  [][\A n \in 1..MaxRegs :
       GroupRemove(n) => Functions(group') = Functions(Without(group, n))]_vars

\* ------------------------------------------------- dependency-driven loads
\* the first load has completed
Loaded == runs # <<>> /\ runs[1].status = "resolved"
\* the latest run started after the first load had settled its controller
StartedLoaded == runs[Len(runs)].d # runs[1].d
\* C32: once the resource has been loaded, a write that changes a dependency
\* the loader read on its latest run starts a new load run (the status is
\* loading while the loader's future is unsettled), and the future of the
\* resource then resolves with the result of that run; while the resource is
\* idle a dependency write starts no run.
C32_DepChangeReloads ==
  [][/\ \A k \in Loaders :
          (DepChange(k) /\ subscribed /\ Loaded) =>
             /\ Len(runs') = Len(runs) + 1
             /\ runs'[Len(runs')].src = "loader"
             /\ k.kind = "pending" => current'.status = "loading"
     /\ \A k \in Loaders : (DepChange(k) /\ current.status = "idle") => runs' = runs
     /\ \A o \in Outcomes :
          (Settle(Len(runs), o) /\ o.ok /\ Loaded /\ StartedLoaded /\ version = 1
             /\ ~disposed) =>
             /\ defers'[defer'].realStatus = "resolved"
             /\ defers'[defer'].realValue = o.value]_vars

\* ------------------------------------------------ futures known as resolved
\* C33: when the future the loader returns is already known as resolved with
\* v as the run starts, the resource is succeeded(v) when load(), reload() or
\* the dependency write returns, and the subscribers are told at most that:
\* no loading status is delivered for the run.
C33_PreResolvedSkipsLoading ==
  [][\A k \in Loaders :
       ((Load(k) \/ Reload(k) \/ DepChange(k)) /\ k.kind = "resolved"
          /\ Len(runs') = Len(runs) + 1 /\ runs'[Len(runs')].src = "loader") =>
         /\ current' = [status |-> "succeeded", value |-> k.value]
         /\ \/ notified' = notified
            \/ notified' = Append(notified, [status |-> "succeeded", value |-> k.value])]_vars
\* the first load found its future resolved: one notification, succeeded
C33_Witness ==
  /\ Len(runs) = 1 /\ runs[1].src = "loader" /\ runs[1].kind = "resolved"
  /\ current.status = "succeeded"
  /\ notified = <<[status |-> "succeeded", value |-> runs[1].value]>>

\* -------------------------------------------- the cache at a notification
\* update() invokes the subscribers before its tail writes the cache: a
\* getResult(resource) made by a subscriber finds the entry of the state the
\* step starts from, or makes a pending one where there is none
FoundBySubscriber ==
  IF promiseResults = NoResult THEN [status |-> "pending", value |-> undefined]
  ELSE promiseResults
Classification(loadable) ==
  IF loadable.status = "loading" THEN [status |-> "pending", value |-> undefined]
  ELSE IF loadable.status = "succeeded" THEN [status |-> "resolved", value |-> loadable.value]
  ELSE [status |-> "rejected", value |-> loadable.value]
\* C34: when a subscriber of the resource is notified, the status cache
\* already classifies the resource as the Loadable delivered says: pending
\* for loading, resolved with v for succeeded(v), rejected with e for failed(e).
C34_CacheAtNotification ==
  [][Len(notified') > Len(notified) =>
       LET found == FoundBySubscriber
           want == Classification(notified'[Len(notified')])
       IN found.status = want.status /\ found.value = want.value]_vars

\* ------------------------------------------------- the status and the future
\* C35: whenever the status is succeeded(v) and the future `promise` names
\* has settled, it resolved with v; whenever the status is failed(e) and it
\* has settled, it rejected with e.
C35_FutureAgrees ==
  (promise # 0 /\ defers[promise].status # "pending") =>
     /\ current.status = "succeeded" =>
          defers[promise].status = "resolved" /\ defers[promise].realValue = current.value
     /\ current.status = "failed" =>
          defers[promise].status = "rejected" /\ defers[promise].realValue = current.value

\* ------------------------------------------------------- reruns per change
\* how often the dispatch of frame f has run the effect
Reruns(f) == Cardinality({n \in 1..Len(f.invoked) : f.invoked[n].callback = "handleChange"})
\* C36: a value-changing write to a dependency the effect read in its latest
\* run reruns the effect exactly once, however often the function read the
\* dependency in that run.
C36_OneRerunPerChange ==
  [][(DispatchEnd /\ STop.state \in Statics /\ "handleChange" \in Range(STop.expected)) =>
       Reruns(STop) = 1]_vars

\* ------------------------------------------------------- a disposed effect
\* every run of the function reads a, so the cleanupNotifier is empty exactly
\* from the call of the function createEffect returned to the next run
EffectDisposed == cleanupNotifier = <<>>
\* C37: once the function createEffect returned has been called, the effect
\* function is not run again and the effect is subscribed to no dependency,
\* also when the call is made during a change notification of a dependency.
C37_DisposedEffectInert ==
  [][/\ ComputedDispose => (EffectDisposed' /\ SubscribedTo({})')
     /\ EffectDisposed => (~HandleChange /\ EffectDisposed' /\ SubscribedTo({})')]_vars

\* ------------------------------------------------- the registry and the living
\* the instances the container made whose dispose() has not been called
Living == {i \in Insts : model[i].phase # "none" /\ model[i].container = 0
                         /\ i \notin hist.disposeCalled}
\* C38: between calls, the instances the container lists are exactly the
\* instances it made that have not been disposed: none that was disposed is
\* still listed (and so returned by get), none that lives has been dropped.
C38_RegistryIsLiving ==
  stack = <<>> => listedIn(0) = Living

\* ---------------------------------------------------------- several pauses
\* the functions handed out by pause() calls that did pause
Unpausers == {j \in 1..Len(unpauses) : unpauses[j] = "unpause"}
\* C39: with several pauses on a pending controller, a decided outcome is
\* delivered only after every function pause() handed out has been called:
\* at a delivery by an unpause call, at least as many unpause calls have been
\* made as functions were handed out.
C39_EveryPauseEnded ==
  [][\A h \in 1..MaxPauses :
       (DUnpause(h) /\ ctl.status = "pending" /\ ctl'.status # "pending") =>
         CountOf(dcalls', "unpause") >= Cardinality(Unpausers)]_vars

\* ---------------------------------------------------------------- C40
\* structural equality of two keys: objects by content, primitives by identity
StructurallyEqual(a, b) == IF a \in KeyObjs /\ b \in KeyObjs THEN equal(a, b) ELSE a = b
\* the keys stored, of both stores, in one sequence
StoredKeys == [n \in 1..MapExSize |->
                 IF n <= Len(nonObjectMap) THEN nonObjectMap[n].key
                 ELSE objectEntries[n - Len(nonObjectMap)].key]
\* one key for every set of structurally equal keys that is present
Present == {k \in MKeys : /\ MapExHas(k)
                         /\ \A j \in MKeys : StructurallyEqual(j, k) => k <= j}
MapExConsistent ==
  /\ \A k \in MKeys : MapExHas(k) <=> MapExGet(k) # 0
  /\ \A i, j \in 1..Len(StoredKeys) :
       i # j => ~StructurallyEqual(StoredKeys[i], StoredKeys[j])
  /\ MapExSize = Cardinality(Present)

\* C40: the MapEx is a map keyed by structural equality. It starts empty;
\* a set makes get return its value for every key structurally equal to its
\* key and changes no other key; a delete returns true exactly when has()
\* was true for its key, leaves every structurally equal key absent and
\* changes no other key; a clear leaves every key absent; and always has()
\* agrees with get(), no two stored keys are structurally equal and size is
\* the number of structurally distinct keys present.
C40_MapExStructural ==
  /\ MapExConsistent /\ MapExSize = 0
  /\ [][ /\ MapExConsistent'
         /\ mcall'.op = "set" =>
              \A k \in MKeys :
                MapExGet(k)' = IF StructurallyEqual(k, mcall'.key)
                               THEN mcall'.value ELSE MapExGet(k)
         /\ mcall'.op = "delete" =>
              /\ mcall'.result = MapExHas(mcall'.key)
              /\ \A k \in MKeys :
                   MapExGet(k)' = IF StructurallyEqual(k, mcall'.key)
                                  THEN 0 ELSE MapExGet(k)
         /\ mcall'.op = "clear" => \A k \in MKeys : MapExGet(k)' = 0 ]_vars

\* an entry stored under one object was overwritten through another object
\* of the same content, next to entries under a primitive and another object
C40_Witness ==
  /\ mcall.op = "set" /\ mcall.key = 2
  /\ \E n \in 1..Len(objectEntries) :
       objectEntries[n].key = 1 /\ objectEntries[n].entry = mcall.value
  /\ MapExGet(1) = mcall.value
  /\ MapExSize = 3

====
